---- MODULE Spec2Model ----
(***************************************************************************)
(* Trace capture and namespace assembly of pytorch-to-returnn:             *)
(* naming/call.py (CallEntry) and naming/namespace.py (RegisteredName).    *)
(*                                                                         *)
(* All objects live in arenas (sequences of records) addressed by index;   *)
(* 0 stands for Python's None.  A handler is a function on a heap record   *)
(* H = [modules, calls, nodes, tensors, stack, wrap, keep, err]; a raised  *)
(* exception sets H.err and every later statement of the handler is        *)
(* skipped, so the heap keeps what was mutated before the raise.           *)
(***************************************************************************)
EXTENDS Integers, Sequences, FiniteSets, TLC

VARIABLES
  modules,                 \* Naming.modules: the ModuleEntry arena
  calls,                   \* every CallEntry created so far
  nodes,                   \* every RegisteredName created so far; nodes[1] is the root
  tensors,                 \* Naming.tensors: the TensorEntry arena
  module_call_stack,       \* Naming.module_call_stack (bottom first)
  wrap_to_returnn_enabled, \* Naming.wrap_to_returnn_enabled
  keep_orig_module_io_tensors, \* Naming.keep_orig_module_io_tensors
  err,                     \* "none", or the exception that ended the session
  lastDump                 \* the value returned by the most recent dump_* call

vars == <<modules, calls, nodes, tensors, module_call_stack,
          wrap_to_returnn_enabled, keep_orig_module_io_tensors, err, lastDump>>

(***************************************************************************)
(* Bounds of the model.                                                    *)
(***************************************************************************)
MaxCalls == 3        \* push_module_call invocations per session
MaxInputs == 2       \* length of an invocation's inputs_flat
MaxSubNets == 1      \* register_sub_net invocations per session
NumInitTensors == 1  \* traced values that exist before the first invocation

(***************************************************************************)
(* The operation units the session owns.  has_torch_forward tells compound *)
(* from primitive; name is the unit's canonical preferred name.  Units 1   *)
(* and 2 are two instances of the same primitive class, so their preferred *)
(* names collide.                                                          *)
(***************************************************************************)
Units ==
  << [name |-> "relu", has_torch_forward |-> FALSE, class |-> "activation",
      params |-> <<>>],
     [name |-> "relu", has_torch_forward |-> FALSE, class |-> "activation",
      params |-> <<>>],
     [name |-> "blk",  has_torch_forward |-> TRUE,  class |-> "subnetwork",
      params |-> <<>>] >>

CopyUnit ==
  [name |-> "copy", has_torch_forward |-> FALSE, class |-> "copy", params |-> <<>>]

SuggestedNames == {"blk", "data"}

None == 0
ROOT == 1

ReservedInputName == "data"
ReservedOutputName == "output"
ReservedNames == {ReservedInputName, ReservedOutputName}

(***************************************************************************)
(* Sequence helpers (Python list and OrderedDict operations).              *)
(***************************************************************************)
Range(s) == {s[i] : i \in 1..Len(s)}

InSeq(x, s) == \E i \in 1..Len(s) : s[i] = x

Count(x, s) == Cardinality({i \in 1..Len(s) : s[i] = x})

IndexOf(x, s) == CHOOSE i \in 1..Len(s) : s[i] = x /\ \A j \in 1..(i-1) : s[j] # x

\* list.remove(x): drops the first occurrence
ListRemove(s, x) ==
  LET i == IndexOf(x, s)
  IN  [j \in 1..(Len(s)-1) |-> IF j < i THEN s[j] ELSE s[j+1]]

\* key in dict
HasKey(d, k) == \E i \in 1..Len(d) : d[i][1] = k

\* dict[key]
DictGet(d, k) == d[CHOOSE i \in 1..Len(d) : d[i][1] = k][2]

\* dict[key] = value on an OrderedDict: an existing key keeps its position
DictSet(d, k, v) ==
  IF HasKey(d, k)
  THEN [i \in 1..Len(d) |-> IF d[i][1] = k THEN <<k, v>> ELSE d[i]]
  ELSE Append(d, <<k, v>>)

Keys(d) == {d[i][1] : i \in 1..Len(d)}

(***************************************************************************)
(* The heap and exceptions.                                                *)
(***************************************************************************)
Heap ==
  [modules |-> modules, calls |-> calls, nodes |-> nodes, tensors |-> tensors,
   stack |-> module_call_stack, wrap |-> wrap_to_returnn_enabled,
   keep |-> keep_orig_module_io_tensors, err |-> err]

Ok(H) == H.err = "none"

Raise(H, e) == IF Ok(H) THEN [H EXCEPT !.err = e] ELSE H

\* x is y, for objects of two classes: instances of different classes are
\* never the same object
IsSame(classA, a, classB, b) == classA = classB /\ a = b

NoCtx ==
  [exists |-> FALSE, parent |-> None, name |-> "", sub_net_layer |-> FALSE,
   params |-> <<>>, layers |-> <<>>, inputs |-> <<>>, output |-> ""]

NoLayer == [exists |-> FALSE, name |-> "", network |-> None]

\* a layer description: kind "None" is Python's None, "layer" a primitive
\* unit's description, "subnetwork" the dump of a compound node.  from holds
\* the referenced names; from_is_list tells a list from a single name given
\* directly; concat_sources is "absent" when the key is missing.
NoLayerDict ==
  [kind |-> "None", class |-> "", from |-> <<>>, from_is_list |-> FALSE,
   subnetwork |-> <<>>, concat_sources |-> "absent"]

has_torch_forward(H, m) == H.modules[m].unit.has_torch_forward

(***************************************************************************)
(* namespace.py: RegisteredName                                            *)
(***************************************************************************)

\* assign_tensor that leaves the node in the names of its old tensor
assign_tensor_keeping_old(H, n, t) ==
  IF ~Ok(H) THEN H
  ELSE [H EXCEPT !.nodes[n].tensor = t,
                 !.tensors[t].names = Append(@, n)]

\* RegisteredName.assign_tensor
assign_tensor(H, n, t) ==
  IF ~Ok(H) THEN H ELSE
  LET old == H.nodes[n].tensor
      H1  == IF old = None THEN H
             ELSE IF ~InSeq(n, H.tensors[old].names) THEN Raise(H, "ValueError")
             ELSE [H EXCEPT !.tensors[old].names = ListRemove(@, n)]
  IN  IF ~Ok(H1) THEN H1
      ELSE [H1 EXCEPT !.nodes[n].tensor = t,
                      !.tensors[t].names = Append(@, n)]

\* ReturnnContext(parent=..., name=...): a nested context owns the graph
\* node of its scope (sub_net_layer); the root context has none
ReturnnContext(parentNode, name) ==
  [exists |-> TRUE, parent |-> parentNode, name |-> name,
   sub_net_layer |-> (parentNode # None), params |-> <<>>,
   layers |-> <<>>, inputs |-> <<>>, output |-> ""]

\* maybe_create_returnn_ctx that makes a new context whenever it is called,
\* without looking at the parent
maybe_create_returnn_ctx_always(H, n) ==
  IF ~Ok(H) THEN H
  ELSE IF ~H.nodes[n].is_subnet THEN Raise(H, "AssertionError")
  ELSE IF ~H.wrap THEN Raise(H, "AssertionError")
  ELSE [H EXCEPT !.nodes[n].returnn_ctx =
          ReturnnContext(H.nodes[n].parent, H.nodes[n].name)]

\* RegisteredName.maybe_create_returnn_ctx
RECURSIVE maybe_create_returnn_ctx(_, _)
maybe_create_returnn_ctx(H, n) ==
  IF ~Ok(H) THEN H
  ELSE IF ~H.nodes[n].is_subnet THEN Raise(H, "AssertionError")
  ELSE IF ~H.wrap THEN Raise(H, "AssertionError")
  ELSE IF H.nodes[n].returnn_ctx.exists THEN H
  ELSE
    LET p  == H.nodes[n].parent
        H1 == IF p # None /\ ~H.nodes[p].returnn_ctx.exists
              THEN maybe_create_returnn_ctx(H, p) ELSE H
    IN  IF ~Ok(H1) THEN H1
        ELSE IF p # None /\ ~H1.nodes[p].returnn_ctx.exists
        THEN Raise(H1, "AssertionError")
        ELSE [H1 EXCEPT !.nodes[n].returnn_ctx =
                ReturnnContext(p, H.nodes[n].name)]

\* assign_module without the assertions of the branch of a primitive node
assign_module_unguarded(H, n, m) ==
  IF ~Ok(H) THEN H
  ELSE IF InSeq(m, H.nodes[n].modules) THEN H
  ELSE IF H.nodes[n].is_subnet /\ ~has_torch_forward(H, m)
  THEN Raise(H, "AssertionError")
  ELSE
    LET H1 == [H EXCEPT !.nodes[n].modules = Append(@, m),
                        !.modules[m].names = Append(@, n)]
    IN  IF H1.nodes[n].is_reserved /\ has_torch_forward(H1, m)
        THEN Raise(H1, "AssertionError")
        ELSE IF H1.wrap /\ has_torch_forward(H1, m)
                /\ ~H1.nodes[n].returnn_ctx.exists
        THEN IF H1.nodes[n].parent = None THEN Raise(H1, "AssertionError")
             ELSE maybe_create_returnn_ctx(H1, n)
        ELSE H1

\* RegisteredName.assign_module
assign_module(H, n, m) ==
  IF ~Ok(H) THEN H
  ELSE IF InSeq(m, H.nodes[n].modules) THEN H
  ELSE IF H.nodes[n].is_subnet /\ ~has_torch_forward(H, m)
  THEN Raise(H, "AssertionError")
  ELSE IF ~H.nodes[n].is_subnet
          /\ (H.nodes[n].modules # <<>> \/ has_torch_forward(H, m))
  THEN Raise(H, "AssertionError")
  ELSE
    LET H1 == [H EXCEPT !.nodes[n].modules = Append(@, m),
                        !.modules[m].names = Append(@, n)]
    IN  IF H1.nodes[n].is_reserved /\ has_torch_forward(H1, m)
        THEN Raise(H1, "AssertionError")
        ELSE IF H1.wrap /\ has_torch_forward(H1, m)
                /\ ~H1.nodes[n].returnn_ctx.exists
        THEN IF H1.nodes[n].parent = None THEN Raise(H1, "AssertionError")
             ELSE maybe_create_returnn_ctx(H1, n)
        ELSE H1

\* assign_call without the test "if call in self.calls: return"
assign_call_again(H, n, c) ==
  IF ~Ok(H) THEN H
  ELSE
    LET m  == H.calls[c].module
        H1 == assign_module(H, n, m)
    IN  IF ~Ok(H1) THEN H1
        ELSE IF H1.nodes[n].is_subnet /\ ~has_torch_forward(H1, m)
        THEN Raise(H1, "AssertionError")
        ELSE IF ~H1.nodes[n].is_subnet
                /\ (H1.nodes[n].calls # <<>> \/ has_torch_forward(H1, m))
        THEN Raise(H1, "AssertionError")
        ELSE IF H1.calls[c].namespace # None THEN Raise(H1, "AssertionError")
        ELSE [H1 EXCEPT !.calls[c].namespace = n,
                        !.nodes[n].calls = Append(@, c)]

\* assign_call that binds an invocation whatever its namespace is
assign_call_rebinding(H, n, c) ==
  IF ~Ok(H) THEN H
  ELSE IF InSeq(c, H.nodes[n].calls) THEN H
  ELSE
    LET m  == H.calls[c].module
        H1 == assign_module(H, n, m)
    IN  IF ~Ok(H1) THEN H1
        ELSE IF H1.nodes[n].is_subnet /\ ~has_torch_forward(H1, m)
        THEN Raise(H1, "AssertionError")
        ELSE IF ~H1.nodes[n].is_subnet
                /\ (H1.nodes[n].calls # <<>> \/ has_torch_forward(H1, m))
        THEN Raise(H1, "AssertionError")
        ELSE [H1 EXCEPT !.calls[c].namespace = n,
                        !.nodes[n].calls = Append(@, c)]

\* RegisteredName.assign_call
assign_call(H, n, c) ==
  IF ~Ok(H) THEN H
  ELSE IF InSeq(c, H.nodes[n].calls) THEN H
  ELSE
    LET m  == H.calls[c].module
        H1 == assign_module(H, n, m)
    IN  IF ~Ok(H1) THEN H1
        ELSE IF H1.nodes[n].is_subnet /\ ~has_torch_forward(H1, m)
        THEN Raise(H1, "AssertionError")
        ELSE IF ~H1.nodes[n].is_subnet
                /\ (H1.nodes[n].calls # <<>> \/ has_torch_forward(H1, m))
        THEN Raise(H1, "AssertionError")
        ELSE IF H1.calls[c].namespace # None THEN Raise(H1, "AssertionError")
        ELSE [H1 EXCEPT !.calls[c].namespace = n,
                        !.nodes[n].calls = Append(@, c)]

\* RegisteredName.__init__ with a parent (call is never passed by the code):
\* the new node gets the next index of the arena
NewNode(H) == Len(H.nodes) + 1

RegisteredName_init(H, parent, name, tensor, is_reserved, is_subnet) ==
  IF ~Ok(H) THEN H
  ELSE IF name = "" THEN Raise(H, "AssertionError")
  ELSE IF ~is_reserved /\ name \in ReservedNames THEN Raise(H, "AssertionError")
  ELSE
    LET n  == NewNode(H)
        H1 == [H EXCEPT !.nodes = Append(@,
                 [parent |-> parent, name |-> name,
                  level |-> H.nodes[parent].level + 1,
                  childs_by_name |-> <<>>, _inputs |-> <<>>,
                  modules |-> <<>>, calls |-> <<>>, tensor |-> None,
                  returnn_ctx |-> NoCtx,
                  is_reserved |-> is_reserved, is_subnet |-> is_subnet])]
    IN  IF tensor # None THEN assign_tensor(H1, n, tensor) ELSE H1

\* RegisteredName.__init__ of the root (no parent, no name)
RootNode(wrap) ==
  [parent |-> None, name |-> "", level |-> 0,
   childs_by_name |-> <<>>, _inputs |-> <<>>,
   modules |-> <<>>, calls |-> <<>>, tensor |-> None,
   returnn_ctx |-> IF wrap THEN ReturnnContext(None, "") ELSE NoCtx,
   is_reserved |-> FALSE, is_subnet |-> TRUE]

\* the f-string f"{suggested_name}_{i}"
Suffixed(suggested_name, i) == suggested_name \o "_" \o ToString(i)

NameIsFree(H, n, name) ==
  ~HasKey(H.nodes[n].childs_by_name, name) /\ name \notin ReservedNames

\* the loop "for i in itertools.count(1)" of _get_unique_name, from i on
RECURSIVE unique_name_loop(_, _, _, _)
unique_name_loop(H, n, suggested_name, i) ==
  IF NameIsFree(H, n, Suffixed(suggested_name, i))
  THEN Suffixed(suggested_name, i)
  ELSE unique_name_loop(H, n, suggested_name, i + 1)

\* _get_unique_name without the search for a free name
unique_name_as_suggested(H, n, suggested_name) == suggested_name

\* _get_unique_name with the counter started at 0
unique_name_from_zero(H, n, suggested_name) ==
  IF NameIsFree(H, n, suggested_name) THEN suggested_name
  ELSE unique_name_loop(H, n, suggested_name, 0)

\* RegisteredName._get_unique_name
_get_unique_name(H, n, suggested_name) ==
  IF NameIsFree(H, n, suggested_name) THEN suggested_name
  ELSE unique_name_loop(H, n, suggested_name, 1)

\* register_sub_net that takes the suggested name as it is
register_sub_net_unchecked(H, n, suggested_name) ==
  IF ~Ok(H) THEN H
  ELSE IF ~H.nodes[n].is_subnet THEN Raise(H, "AssertionError")
  ELSE
    LET child == NewNode(H)
        H1    == RegisteredName_init(H, n, suggested_name, None, FALSE, TRUE)
    IN  IF ~Ok(H1) THEN H1
        ELSE [H1 EXCEPT !.nodes[n].childs_by_name =
                          DictSet(@, suggested_name, child)]

\* RegisteredName.register_sub_net
register_sub_net(H, n, suggested_name) ==
  IF ~Ok(H) THEN H
  ELSE IF ~H.nodes[n].is_subnet THEN Raise(H, "AssertionError")
  ELSE
    LET name  == _get_unique_name(H, n, suggested_name)
        child == NewNode(H)
        H1    == RegisteredName_init(H, n, name, None, FALSE, TRUE)
    IN  IF ~Ok(H1) THEN H1
        ELSE [H1 EXCEPT !.nodes[n].childs_by_name = DictSet(@, name, child)]

\* ModuleEntry.get_canonical_name(parent_namespace=...)
get_canonical_name(H, m, parent_namespace) == H.modules[m].unit.name

\* register_sub_call that does not enter the child in childs_by_name
register_sub_call_unlisted(H, n, c) ==
  IF ~Ok(H) THEN H
  ELSE IF ~H.nodes[n].is_subnet THEN Raise(H, "AssertionError")
  ELSE
    LET m     == H.calls[c].module
        name  == _get_unique_name(H, n, get_canonical_name(H, m, n))
        child == NewNode(H)
        H1    == RegisteredName_init(H, n, name, None, FALSE,
                                     has_torch_forward(H, m))
    IN  assign_call(H1, child, c)

\* RegisteredName.register_sub_call
register_sub_call(H, n, c) ==
  IF ~Ok(H) THEN H
  ELSE IF ~H.nodes[n].is_subnet THEN Raise(H, "AssertionError")
  ELSE
    LET m     == H.calls[c].module
        name  == _get_unique_name(H, n, get_canonical_name(H, m, n))
        child == NewNode(H)
        H1    == RegisteredName_init(H, n, name, None, FALSE,
                                     has_torch_forward(H, m))
        H2    == IF ~Ok(H1) THEN H1
                 ELSE [H1 EXCEPT !.nodes[n].childs_by_name = DictSet(@, name, child)]
    IN  assign_call(H2, child, c)

\* ReturnnContext.define_input(tensor, data_key=...)
define_input(H, n, tensor, data_key) ==
  IF ~Ok(H) THEN H
  ELSE IF ~H.nodes[n].returnn_ctx.exists THEN Raise(H, "AttributeError")
  ELSE [H EXCEPT !.nodes[n].returnn_ctx.inputs = Append(@, <<tensor, data_key>>)]

\* InputName with the slot index counted from 1
InputName_from_one(idx) ==
  IF idx # 0 THEN ReservedInputName \o ":" \o ToString(idx + 1) ELSE ReservedInputName

\* the input slot's name for slot index idx
InputName(idx) ==
  IF idx # 0 THEN ReservedInputName \o ":" \o ToString(idx) ELSE ReservedInputName

\* the slot index handed to the context: str(idx) if idx else None
DataKey(idx) == IF idx # 0 THEN ToString(idx) ELSE ""

\* assert tensor not in self._inputs: a TensorEntry looked up in a list of
\* RegisteredName
TensorInInputs(H, n, tensor) ==
  \E k \in 1..Len(H.nodes[n]._inputs) :
    IsSame("TensorEntry", tensor, "RegisteredName", H.nodes[n]._inputs[k])

\* RegisteredName.register_input
register_input(H, n, tensor) ==
  IF ~Ok(H) THEN H
  ELSE IF ~H.nodes[n].is_subnet THEN Raise(H, "AssertionError")
  ELSE IF TensorInInputs(H, n, tensor) THEN Raise(H, "AssertionError")
  ELSE
    LET idx   == Len(H.nodes[n]._inputs)
        name  == InputName(idx)
        name_ == NewNode(H)
    IN  IF HasKey(H.nodes[n].childs_by_name, name) THEN Raise(H, "AssertionError")
        ELSE
          LET H1 == RegisteredName_init(H, n, name, tensor, TRUE, FALSE)
              H2 == IF ~Ok(H1) THEN H1
                    ELSE [H1 EXCEPT !.nodes[n].childs_by_name = DictSet(@, name, name_),
                                    !.nodes[n]._inputs = Append(@, name_)]
          IN  IF Ok(H2) /\ H2.wrap
              THEN define_input(H2, n, tensor, DataKey(idx))
              ELSE H2

\* a lookup's result: the exception it raised ("none" if it returned) and
\* the value it returned
Found(x) == [err |-> "none", val |-> x]

NotFound(e) == [err |-> e, val |-> <<>>]

\* name_for_tensor that answers the default input name for an unknown tensor
name_for_tensor_defaulting(H, n, tensor) ==
  IF \E k \in 1..Len(H.tensors[tensor].names) :
       H.nodes[H.tensors[tensor].names[k]].parent = n
  THEN Found(H.nodes[H.tensors[tensor].names[
         CHOOSE k \in 1..Len(H.tensors[tensor].names) :
           /\ H.nodes[H.tensors[tensor].names[k]].parent = n
           /\ \A j \in 1..(k-1) : H.nodes[H.tensors[tensor].names[j]].parent # n]].name)
  ELSE Found(ReservedInputName)

\* the loop "for name_ in tensor.names" of name_for_tensor, from index k on
RECURSIVE name_for_tensor_loop(_, _, _, _)
name_for_tensor_loop(H, n, tensor, k) ==
  IF k > Len(H.tensors[tensor].names) THEN NotFound("KeyError")
  ELSE
    LET name_ == H.tensors[tensor].names[k]
    IN  IF H.nodes[name_].parent = n
        THEN IF ~HasKey(H.nodes[n].childs_by_name, H.nodes[name_].name)
             THEN NotFound("KeyError")
             ELSE IF DictGet(H.nodes[n].childs_by_name, H.nodes[name_].name) # name_
             THEN NotFound("AssertionError")
             ELSE Found(H.nodes[name_].name)
        ELSE name_for_tensor_loop(H, n, tensor, k + 1)

\* RegisteredName.name_for_tensor
name_for_tensor(H, n, tensor) ==
  IF ~H.nodes[n].is_subnet THEN NotFound("AssertionError")
  ELSE name_for_tensor_loop(H, n, tensor, 1)

(***************************************************************************)
(* call.py: CallEntry                                                      *)
(***************************************************************************)
NewCall(H) == Len(H.calls) + 1

NewTensor(H) == Len(H.tensors) + 1

NewModule(H) == Len(H.modules) + 1

(***************************************************************************)
(* Nested input structures and tf.nest (flatten, pack_sequence_as).        *)
(* A structure is a leaf, a tuple of structures, or a dict: a sequence of  *)
(* <<key, structure>> in insertion order.  None is a leaf.                 *)
(***************************************************************************)
NoStruct == [kind |-> "None", val |-> None, items |-> <<>>]

Leaf(v) == [kind |-> "leaf", val |-> v, items |-> <<>>]

TupleOf(xs) == [kind |-> "tuple", val |-> None, items |-> xs]

DictOf(kvs) == [kind |-> "dict", val |-> None, items |-> kvs]

\* the keyword names of the session, in sorted order
KwargNames == <<"a", "b">>

KeyRank(key) == CHOOSE i \in 1..Len(KwargNames) : KwargNames[i] = key

\* sorted(dict.items()): nest walks a dict in the order of its sorted keys
RECURSIVE SortByKey(_)
SortByKey(kvs) ==
  IF kvs = <<>> THEN <<>>
  ELSE LET i == CHOOSE i \in 1..Len(kvs) :
                  \A j \in 1..Len(kvs) : KeyRank(kvs[i][1]) <= KeyRank(kvs[j][1])
       IN  <<kvs[i]>> \o SortByKey(SubSeq(kvs, 1, i - 1) \o SubSeq(kvs, i + 1, Len(kvs)))

\* nest.flatten(structure)
RECURSIVE flatten(_)
RECURSIVE flatten_items(_, _)
flatten(s) ==
  IF s.kind = "tuple" THEN flatten_items(s.items, 1)
  ELSE IF s.kind = "dict"
  THEN flatten_items([i \in 1..Len(s.items) |-> SortByKey(s.items)[i][2]], 1)
  ELSE <<s.val>>

flatten_items(xs, k) ==
  IF k > Len(xs) THEN <<>> ELSE flatten(xs[k]) \o flatten_items(xs, k + 1)

\* the number of leaves of the first k structures of xs
RECURSIVE LeavesBefore(_, _)
LeavesBefore(xs, k) ==
  IF k = 0 THEN 0 ELSE LeavesBefore(xs, k - 1) + Len(flatten(xs[k]))

\* the number of leaves of the dict values whose key sorts before key
LeavesBeforeKey(kvs, key) ==
  LET sorted == SortByKey(kvs)
      r == CHOOSE i \in 1..Len(sorted) : sorted[i][1] = key
  IN  LeavesBefore([i \in 1..Len(sorted) |-> sorted[i][2]], r - 1)

\* nest.pack_sequence_as, the structure rebuilt around the leaves of flat
\* from position start on
RECURSIVE pack_at(_, _, _)
pack_at(s, flat, start) ==
  IF s.kind = "tuple"
  THEN TupleOf([i \in 1..Len(s.items) |->
                  pack_at(s.items[i], flat, start + LeavesBefore(s.items, i - 1))])
  ELSE IF s.kind = "dict"
  THEN DictOf([i \in 1..Len(s.items) |->
                 <<s.items[i][1],
                   pack_at(s.items[i][2], flat,
                           start + LeavesBeforeKey(s.items, s.items[i][1]))>>])
  ELSE Leaf(flat[start])

\* nest.pack_sequence_as(structure=..., flat_sequence=...)
pack_sequence_as(structure, flat_sequence) ==
  IF Len(flat_sequence) # Len(flatten(structure))
  THEN [err |-> "ValueError", val |-> NoStruct]
  ELSE [err |-> "none", val |-> pack_at(structure, flat_sequence, 1)]

\* the values handed to set_outputs: one tensor, or a list or tuple of
\* tensors; NoValue is Python's None
NoValue == [kind |-> "None", id |-> None, items |-> <<>>]

TensorValue(t) == [kind |-> "tensor", id |-> t, items |-> <<>>]

ListValue(xs) == [kind |-> "list", id |-> None, items |-> xs]

\* if not isinstance(outputs, (list, tuple)): outputs = [outputs]
AsList(outputs) ==
  IF outputs.kind = "list" THEN outputs.items ELSE <<outputs.id>>

\* CallEntry.__init__; pc and via are the position of the invocation's
\* frame: via tells push_module_call's with-block from the adapter frame of
\* register_returnn_subnet_output
CallEntry_init(H, module, via) ==
  [H EXCEPT !.calls = Append(@,
              [module |-> module, inputs_flat |-> <<>>,
               inputs_args |-> NoStruct, inputs_kwargs |-> NoStruct,
               outputs |-> <<>>, has_outputs |-> FALSE,
               orig_outputs |-> NoValue,
               parent_call |-> None, child_calls |-> <<>>, level |-> None,
               namespace |-> None,
               returnn_layer |-> NoLayer, returnn_layer_dict |-> NoLayerDict,
               pc |-> "entered", via |-> via]),
            !.modules[module].calls = Append(@, NewCall(H))]

\* naming.tensors[x] for a value first seen now
TensorEntry_init(H) ==
  [H EXCEPT !.tensors = Append(@,
     [names |-> <<>>, output_from_calls |-> <<>>, output_from_modules |-> <<>>])]

\* CallEntry.set_returnn_layer
set_returnn_layer(H, c, layer, layer_dict) ==
  IF ~Ok(H) THEN H
  ELSE [H EXCEPT !.calls[c].returnn_layer = layer,
                 !.calls[c].returnn_layer_dict = layer_dict]

\* CallEntry.set_outputs, the loop over entry_outputs
RECURSIVE set_outputs_loop(_, _, _, _)
set_outputs_loop(H, c, entry_outputs, k) ==
  IF k > Len(entry_outputs) THEN H
  ELSE
    LET x  == entry_outputs[k]
        H1 == [H EXCEPT !.tensors[x].output_from_calls = Append(@, c),
                        !.tensors[x].output_from_modules =
                            Append(@, H.calls[c].module)]
    IN  set_outputs_loop(H1, c, entry_outputs, k + 1)

\* CallEntry.set_outputs
set_outputs(H, c, outputs) ==
  IF ~Ok(H) THEN H
  ELSE IF H.calls[c].has_outputs THEN Raise(H, "AssertionError")
  ELSE
    LET H0 == IF H.keep THEN [H EXCEPT !.calls[c].orig_outputs = outputs] ELSE H
    IN  IF ~H.wrap THEN H0
        ELSE
          LET entry_outputs == AsList(outputs)
              H1 == [H0 EXCEPT !.calls[c].outputs = entry_outputs,
                               !.calls[c].has_outputs = TRUE]
              H2 == set_outputs_loop(H1, c, entry_outputs, 1)
              ns == H.calls[c].namespace
          IN  IF entry_outputs # <<>>
                 /\ ~InSeq(ns, H2.tensors[entry_outputs[1]].names)
              THEN [H2 EXCEPT !.tensors[entry_outputs[1]].names = Append(@, ns)]
              ELSE H2

\* Module._get_input_layer_name(input): the name the scope around the
\* running invocation knows the input under
_get_input_layer_name(H, c, input) ==
  name_for_tensor(H, H.nodes[H.calls[c].namespace].parent, input)

\* the names of inputs k.. of invocation c, or the first lookup error
RECURSIVE input_layer_names(_, _, _, _)
input_layer_names(H, c, k, acc) ==
  IF k > Len(H.calls[c].inputs_flat) THEN Found(acc)
  ELSE
    LET r == _get_input_layer_name(H, c, H.calls[c].inputs_flat[k])
    IN  IF r.err # "none" THEN NotFound(r.err)
        ELSE input_layer_names(H, c, k + 1, Append(acc, r.val))

\* Module.create_returnn_layer_dict of a primitive unit
create_returnn_layer_dict(H, c) ==
  LET names == input_layer_names(H, c, 1, <<>>)
  IN  IF names.err # "none" THEN NotFound(names.err)
      ELSE Found([kind |-> "layer",
                  class |-> H.modules[H.calls[c].module].unit.class,
                  from |-> names.val, from_is_list |-> FALSE,
                  subnetwork |-> <<>>, concat_sources |-> "absent"])

\* is_reused with the threshold off by one
is_reused_from_third(H, m) == Len(H.modules[m].calls) >= 3

\* len(self.module.calls) >= 2: the unit was invoked before
is_reused(H, m) == Len(H.modules[m].calls) >= 2

\* a network in which no name is ever found
layer_name_never_in_network(H, scope, layer_name) == FALSE

\* layer_name in returnn_net.layers, returnn_net the network of scope
layer_name_in_network(H, scope, layer_name) ==
  InSeq(layer_name, H.nodes[scope].returnn_ctx.layers)

\* returnn_net.construct_layer(net_dict={layer_name: layer_dict}, name=layer_name)
construct_layer(H, scope, layer_name) ==
  [H EXCEPT !.nodes[scope].returnn_ctx.layers = Append(@, layer_name)]

\* str.startswith
startswith(s, prefix) ==
  Len(s) >= Len(prefix) /\ SubSeq(s, 1, Len(prefix)) = prefix

\* layer.params of the layer of a unit without forward: one parameter per
\* parameter name of the unit, owned by the layer of the invocation's node
layer_params(H, c) ==
  LET names == H.modules[H.calls[c].module].unit.params
  IN  [k \in 1..Len(names) |->
         <<names[k], [layer |-> H.calls[c].namespace, name |-> names[k]]>>]

\* parent_layer.params.update({prefix + k: v for (k, v) in layer.params.items()}),
\* from item k on
RECURSIVE params_update(_, _, _, _)
params_update(params, prefix, items, k) ==
  IF k > Len(items) THEN params
  ELSE params_update(DictSet(params, prefix \o items[k][1], items[k][2]),
                     prefix, items, k + 1)

\* the loop "while parent_layer" that ignores hidden layers
RECURSIVE update_parent_params_through_hidden(_, _, _, _)
update_parent_params_through_hidden(H, scope, prefix, items) ==
  IF ~H.nodes[scope].returnn_ctx.sub_net_layer THEN H
  ELSE update_parent_params_through_hidden(
         [H EXCEPT !.nodes[scope].returnn_ctx.params =
                      params_update(@, prefix, items, 1)],
         H.nodes[scope].returnn_ctx.parent,
         H.nodes[scope].returnn_ctx.name \o "/" \o prefix, items)

\* the loop "while parent_layer" of apply_call: parent_layer is the
\* subnetwork layer of scope, the layer that holds the network of scope
RECURSIVE update_parent_params(_, _, _, _)
update_parent_params(H, scope, prefix, items) ==
  IF ~H.nodes[scope].returnn_ctx.sub_net_layer THEN H
  ELSE IF startswith(H.nodes[scope].returnn_ctx.name, ".") THEN H
  ELSE update_parent_params(
         [H EXCEPT !.nodes[scope].returnn_ctx.params =
                      params_update(@, prefix, items, 1)],
         H.nodes[scope].returnn_ctx.parent,
         H.nodes[scope].returnn_ctx.name \o "/" \o prefix, items)

\* pack_inputs with the keyword arguments left out of the structure
pack_inputs_args_only(H, c) ==
  pack_sequence_as(TupleOf(<<H.calls[c].inputs_args>>), H.calls[c].inputs_flat)

\* inputs_args, inputs_kwargs = nest.pack_sequence_as(
\*   structure=(self.inputs_args, self.inputs_kwargs), flat_sequence=inputs_flat)
pack_inputs(H, c) ==
  pack_sequence_as(TupleOf(<<H.calls[c].inputs_args, H.calls[c].inputs_kwargs>>),
                   H.calls[c].inputs_flat)

\* CallEntry.apply_call, the branch of a unit without forward
apply_call_primitive(H, c) ==
  IF ~Ok(H) THEN H
  ELSE IF H.calls[c].namespace = None THEN Raise(H, "AssertionError")
  ELSE IF pack_inputs(H, c).err # "none" THEN Raise(H, pack_inputs(H, c).err)
  ELSE IF H.nodes[H.calls[c].namespace].parent = None THEN Raise(H, "AssertionError")
  ELSE
    LET ns     == H.calls[c].namespace
        m      == H.calls[c].module
        parent_namespace == H.nodes[ns].parent
        H1     == maybe_create_returnn_ctx(H, parent_namespace)
        layer_name == H.nodes[ns].name
        made       == create_returnn_layer_dict(H1, c)
    IN  IF ~Ok(H1) THEN H1
        ELSE IF made.err # "none" THEN Raise(H1, made.err)
        ELSE IF layer_name_in_network(H1, parent_namespace, layer_name)
        THEN Raise(H1, "AssertionError")
        ELSE IF is_reused(H1, m) THEN Raise(H1, "NotImplementedError")
        ELSE
          LET layer_dict == made.val
              H2a   == construct_layer(H1, parent_namespace, layer_name)
              layer == [exists |-> TRUE, name |-> layer_name,
                        network |-> parent_namespace]
              H2    == update_parent_params(H2a, parent_namespace,
                                            layer_name \o "/", layer_params(H2a, c))
              res   == NewTensor(H2)
              H3    == TensorEntry_init(H2)
              H4    == assign_tensor(H3, ns, res)
              H5    == set_returnn_layer(H4, c, layer, layer_dict)
              H6    == set_outputs(H5, c, ListValue(<<res>>))
          IN  IF Ok(H6) THEN [H6 EXCEPT !.calls[c].pc = "applied"] ELSE H6

\* CallEntry.apply_call of a unit without forward when
\* returnn_net.construct_layer raises: the checks before it pass, the
\* parent's context is created, and nothing after it runs
apply_call_construct_raises(H, c) ==
  LET H1 == apply_call_primitive(H, c)
  IN  IF ~Ok(H1) THEN H1
      ELSE Raise(maybe_create_returnn_ctx(H, H.nodes[H.calls[c].namespace].parent),
                 "LayerConstructionError")

\* CallEntry.apply_call of a unit with forward, up to the call of
\* module.forward: the loop over inputs_flat
RECURSIVE register_inputs(_, _, _, _)
register_inputs(H, n, inputs_flat, k) ==
  IF k > Len(inputs_flat) THEN H
  ELSE register_inputs(register_input(H, n, inputs_flat[k]), n, inputs_flat, k + 1)

apply_call_begin(H, c) ==
  IF ~Ok(H) THEN H
  ELSE IF H.calls[c].namespace = None THEN Raise(H, "AssertionError")
  ELSE IF pack_inputs(H, c).err # "none" THEN Raise(H, pack_inputs(H, c).err)
  ELSE
    LET H1 == register_inputs(H, H.calls[c].namespace, H.calls[c].inputs_flat, 1)
    IN  IF Ok(H1) THEN [H1 EXCEPT !.calls[c].pc = "forward"] ELSE H1

\* set(tensor.output_from_calls).intersection(set(childs_by_name[name_].calls))
potential_calls(H, n, tensor, name_) ==
  Range(H.tensors[tensor].output_from_calls)
    \cap Range(H.nodes[DictGet(H.nodes[n].childs_by_name, name_)].calls)

\* copy_call.parent_call = call ... copy_call.inputs_kwargs = {}
\* the adapter created without a link to the producer
link_copy_call_unlinked(H, call, copy_call, tensor) ==
  [H EXCEPT !.calls[copy_call].inputs_args = TupleOf(<<Leaf(tensor)>>),
            !.calls[copy_call].inputs_flat = <<tensor>>,
            !.calls[copy_call].inputs_kwargs = DictOf(<<>>)]

link_copy_call(H, call, copy_call, tensor) ==
  [H EXCEPT !.calls[copy_call].parent_call = call,
            !.calls[call].child_calls = Append(@, copy_call),
            !.calls[copy_call].inputs_args = TupleOf(<<Leaf(tensor)>>),
            !.calls[copy_call].inputs_flat = <<tensor>>,
            !.calls[copy_call].inputs_kwargs = DictOf(<<>>)]

\* RegisteredName.register_returnn_subnet_output up to and including the push
\* of copy_call
register_returnn_subnet_output_begin(H, n, tensor) ==
  IF ~Ok(H) THEN H
  ELSE IF ~H.nodes[n].is_subnet THEN Raise(H, "AssertionError")
  ELSE IF ~H.wrap THEN Raise(H, "AssertionError")
  ELSE IF name_for_tensor(H, n, tensor).err # "none"
  THEN Raise(H, name_for_tensor(H, n, tensor).err)
  ELSE IF Cardinality(potential_calls(H, n, tensor, name_for_tensor(H, n, tensor).val)) # 1
  THEN Raise(H, "AssertionError")
  ELSE
    LET call == CHOOSE x \in potential_calls(H, n, tensor,
                                             name_for_tensor(H, n, tensor).val) : TRUE
        H1   == assign_tensor(H, n, tensor)
        name == ReservedOutputName
    IN  IF ~Ok(H1) THEN H1
        ELSE IF HasKey(H1.nodes[n].childs_by_name, name)
        THEN Raise(H1, "AssertionError")
        ELSE
          LET child     == NewNode(H1)
              H2        == RegisteredName_init(H1, n, name, None, TRUE, FALSE)
              H3        == [H2 EXCEPT !.nodes[n].childs_by_name =
                                          DictSet(@, name, child)]
              copy_mod  == NewModule(H3)
              H4        == [H3 EXCEPT !.modules = Append(@,
                              [unit |-> CopyUnit, calls |-> <<>>, names |-> <<>>])]
              copy_call == NewCall(H4)
              H5        == CallEntry_init(H4, copy_mod, "adapter")
              H6        == link_copy_call(H5, call, copy_call, tensor)
              H7        == assign_call(H6, child, copy_call)
          IN  IF ~Ok(H7) THEN H7
              ELSE [H7 EXCEPT !.stack = Append(@, copy_call)]

\* a finally clause that asserts but does not pop
register_returnn_subnet_output_no_pop(H, copy_call) ==
  IF H.stack = <<>> \/ H.stack[Len(H.stack)] # copy_call
  THEN [H EXCEPT !.err = "AssertionError"]
  ELSE H

\* the finally clause of register_returnn_subnet_output: runs on every exit
\* path of copy_call.apply_call()
register_returnn_subnet_output_finally(H, copy_call) ==
  IF H.stack = <<>> \/ H.stack[Len(H.stack)] # copy_call
  THEN [H EXCEPT !.err = "AssertionError"]
  ELSE [H EXCEPT !.stack = SubSeq(@, 1, Len(@) - 1)]

\* ReturnnContext.define_output(layer)
define_output(H, n, layer) ==
  IF ~Ok(H) THEN H
  ELSE IF ~layer.exists THEN Raise(H, "AttributeError")
  ELSE [H EXCEPT !.nodes[n].returnn_ctx.output = layer.name]

\* RegisteredName.register_returnn_subnet_output after copy_call.apply_call()
\* returned
register_returnn_subnet_output_end(H, n, copy_call) ==
  LET H1 == register_returnn_subnet_output_finally(H, copy_call)
  IN  define_output(H1, n, H1.calls[copy_call].returnn_layer)

\* self.namespace.returnn_ctx.sub_net_layer
sub_net_layer(H, n) ==
  [exists |-> H.nodes[n].returnn_ctx.sub_net_layer,
   name |-> H.nodes[n].returnn_ctx.name,
   network |-> H.nodes[n].returnn_ctx.parent]

\* CallEntry.apply_call of a unit with forward, after forward returned res
\* and the output was registered
apply_call_end(H, c, res) ==
  IF ~Ok(H) THEN H
  ELSE
    LET layer == sub_net_layer(H, H.calls[c].namespace)
        H1    == set_returnn_layer(H, c, layer, NoLayerDict)
        H2    == set_outputs(H1, c, ListValue(<<res>>))
    IN  IF Ok(H2) THEN [H2 EXCEPT !.calls[c].pc = "applied"] ELSE H2

\* CallEntry.apply_call of a unit with forward, from the return of
\* module.forward to the push of the adapter
apply_call_forward_returned(H, c, res) ==
  IF ~Ok(H) THEN H
  ELSE IF ~H.nodes[H.calls[c].namespace].returnn_ctx.exists
  THEN Raise(H, "AttributeError")
  ELSE IF H.nodes[H.calls[c].namespace].returnn_ctx.sub_net_layer
  THEN LET H1 == register_returnn_subnet_output_begin(H, H.calls[c].namespace, res)
       IN  IF Ok(H1) THEN [H1 EXCEPT !.calls[c].pc = "adapter"] ELSE H1
  ELSE apply_call_end(H, c, res)

(***************************************************************************)
(* naming.py: Naming                                                       *)
(***************************************************************************)

\* Naming.push_module_call
push_module_call(H, module, inputs_args, inputs_kwargs) ==
  IF ~Ok(H) THEN H
  ELSE
    LET entry == NewCall(H)
        H1    == CallEntry_init(H, module, "push")
        H2    == [H1 EXCEPT !.calls[entry].inputs_args = inputs_args,
                            !.calls[entry].inputs_kwargs = inputs_kwargs,
                            !.calls[entry].inputs_flat =
                               flatten(TupleOf(<<inputs_args, inputs_kwargs>>)),
                            !.calls[entry].level = Len(H.stack)]
        recent_entry == IF H.stack = <<>> THEN None ELSE H.stack[Len(H.stack)]
        H3    == IF recent_entry = None THEN H2
                 ELSE [H2 EXCEPT !.calls[recent_entry].child_calls = Append(@, entry),
                                 !.calls[entry].parent_call = recent_entry]
        parent_namespace ==
                 IF recent_entry = None THEN ROOT
                 ELSE H.calls[recent_entry].namespace
        H4    == register_sub_call(H3, parent_namespace, entry)
    IN  IF ~Ok(H4) THEN H4
        ELSE [H4 EXCEPT !.stack = Append(@, entry)]

\* Naming.pop_module_call
pop_module_call(H, call) ==
  IF ~Ok(H) THEN H
  ELSE IF H.stack = <<>> \/ H.stack[Len(H.stack)] # call
  THEN Raise(H, "AssertionError")
  ELSE [H EXCEPT !.stack = SubSeq(@, 1, Len(@) - 1)]

\* CallEntry.__enter__
CallEntry_enter(H, call) ==
  IF ~Ok(H) THEN H
  ELSE IF H.stack = <<>> THEN Raise(H, "IndexError")
  ELSE IF H.stack[Len(H.stack)] # call THEN Raise(H, "AssertionError")
  ELSE H

\* CallEntry.__exit__ that leaves the stack alone
CallEntry_exit_without_pop(H, call) ==
  IF Ok(H) THEN [H EXCEPT !.calls[call].pc = "exited"] ELSE H

\* CallEntry.__exit__ without an exception in flight
CallEntry_exit(H, call) ==
  LET H1 == pop_module_call(H, call)
  IN  IF Ok(H1) THEN [H1 EXCEPT !.calls[call].pc = "exited"] ELSE H1

(***************************************************************************)
(* namespace.py: serialization                                             *)
(***************************************************************************)
\* the loop "for input_child in self._inputs" of dump_as_returnn_layer_dict,
\* from index k on: the gathered names, or the first error
RECURSIVE dump_inputs(_, _, _, _)
dump_inputs(H, n, k, inputs) ==
  IF k > Len(H.nodes[n]._inputs) THEN Found(inputs)
  ELSE
    LET input_tensor == H.nodes[H.nodes[n]._inputs[k]].tensor
    IN  IF input_tensor = None THEN NotFound("AssertionError")
        ELSE IF H.nodes[n].parent = None THEN NotFound("AssertionError")
        ELSE
          LET input_layer_name == name_for_tensor(H, H.nodes[n].parent, input_tensor)
          IN  IF input_layer_name.err # "none" THEN NotFound(input_layer_name.err)
              ELSE dump_inputs(H, n, k + 1, Append(inputs, input_layer_name.val))

\* SubnetworkDict that treats two inputs like one
SubnetworkDict_upto_two(inputs, subnet_dict) ==
  IF Len(inputs) <= 2
  THEN [kind |-> "subnetwork", class |-> "subnetwork",
        from |-> inputs, from_is_list |-> (inputs = <<>>),
        subnetwork |-> subnet_dict, concat_sources |-> "absent"]
  ELSE [kind |-> "subnetwork", class |-> "subnetwork",
        from |-> inputs, from_is_list |-> TRUE,
        subnetwork |-> subnet_dict, concat_sources |-> "False"]

\* the dict a compound node returns
SubnetworkDict(inputs, subnet_dict) ==
  IF Len(inputs) <= 1
  THEN [kind |-> "subnetwork", class |-> "subnetwork",
        from |-> inputs, from_is_list |-> (inputs = <<>>),
        subnetwork |-> subnet_dict, concat_sources |-> "absent"]
  ELSE [kind |-> "subnetwork", class |-> "subnetwork",
        from |-> inputs, from_is_list |-> TRUE,
        subnetwork |-> subnet_dict, concat_sources |-> "False"]

\* skips_child that skips nothing
skips_child_never(H, child) == FALSE

\* skips_child that also skips every reserved child
skips_child_reserved(H, child) ==
  H.nodes[child].calls = <<>> \/ H.nodes[child].is_reserved

\* "if not child.calls: continue" of dump_as_returnn_net_dict
skips_child(H, child) == H.nodes[child].calls = <<>>

\* the primitive branch of dump_as_returnn_layer_dict is taken
dumps_as_layer(H, n) ==
  /\ H.nodes[n].calls # <<>>
  /\ ~has_torch_forward(H, H.calls[H.nodes[n].calls[1]].module)

\* what the primitive branch returns
dump_primitive(H, n) ==
  IF Len(H.nodes[n].calls) # 1 THEN NotFound("AssertionError")
  ELSE Found(H.calls[H.nodes[n].calls[1]].returnn_layer_dict)

RECURSIVE dump_as_returnn_layer_dict(_, _)
RECURSIVE dump_net_loop(_, _, _, _)

\* RegisteredName.dump_as_returnn_net_dict
dump_as_returnn_net_dict(H, n) == dump_net_loop(H, n, 1, <<>>)

\* the loop over childs_by_name.items() of dump_as_returnn_net_dict
dump_net_loop(H, n, k, net_dict) ==
  IF k > Len(H.nodes[n].childs_by_name) THEN Found(net_dict)
  ELSE
    LET name  == H.nodes[n].childs_by_name[k][1]
        child == H.nodes[n].childs_by_name[k][2]
    IN  IF skips_child(H, child)
        THEN dump_net_loop(H, n, k + 1, net_dict)
        ELSE
          LET r == dump_as_returnn_layer_dict(H, child)
          IN  IF r.err # "none" THEN NotFound(r.err)
              ELSE dump_net_loop(H, n, k + 1, DictSet(net_dict, name, r.val))

\* RegisteredName.dump_as_returnn_layer_dict
dump_as_returnn_layer_dict(H, n) ==
  IF dumps_as_layer(H, n) THEN dump_primitive(H, n)
  ELSE
    LET inputs == dump_inputs(H, n, 1, <<>>)
    IN  IF inputs.err # "none" THEN NotFound(inputs.err)
        ELSE
          LET subnet_dict == dump_as_returnn_net_dict(H, n)
          IN  IF subnet_dict.err # "none" THEN NotFound(subnet_dict.err)
              ELSE Found(SubnetworkDict(inputs.val, subnet_dict.val))

NoDump == [kind |-> "none", node |-> None, err |-> "none", val |-> <<>>]

(***************************************************************************)
(* The session.                                                            *)
(***************************************************************************)
Init ==
  /\ wrap_to_returnn_enabled \in BOOLEAN
  /\ keep_orig_module_io_tensors \in BOOLEAN
  /\ modules = [i \in 1..Len(Units) |->
                  [unit |-> Units[i], calls |-> <<>>, names |-> <<>>]]
  /\ calls = <<>>
  /\ nodes = <<RootNode(wrap_to_returnn_enabled)>>
  /\ tensors = [i \in 1..NumInitTensors |->
                  [names |-> <<>>, output_from_calls |-> <<>>,
                   output_from_modules |-> <<>>]]
  /\ module_call_stack = <<>>
  /\ err = "none"
  /\ lastDump = NoDump

\* the heap a handler leaves behind becomes the state
Commit(H) ==
  /\ modules' = H.modules
  /\ calls' = H.calls
  /\ nodes' = H.nodes
  /\ tensors' = H.tensors
  /\ module_call_stack' = H.stack
  /\ err' = H.err
  /\ lastDump' = NoDump
  /\ UNCHANGED <<wrap_to_returnn_enabled, keep_orig_module_io_tensors>>

Top == module_call_stack[Len(module_call_stack)]

\* the namespace the running code registers into: that of the invocation
\* whose forward is executing, or the root
CurrentScope == IF module_call_stack = <<>> THEN ROOT ELSE calls[Top].namespace

\* user code may run: no invocation is open, or the top one is in its forward
UserCodeRuns ==
  /\ err = "none"
  /\ module_call_stack # <<>> => calls[Top].pc = "forward"

\* the code around the session may run: user code, or the handler of an
\* exception that left the session
CallerRuns == err # "none" \/ UserCodeRuns

PushCount == Cardinality({c \in 1..Len(calls) : calls[c].via = "push"})

SubNetCount ==
  Cardinality({n \in 1..Len(nodes) :
     n # ROOT /\ nodes[n].is_subnet /\ nodes[n].calls = <<>>})

InputSeqs(m) ==
  IF modules[m].unit.has_torch_forward
  THEN UNION {[1..k -> 1..Len(tensors)] : k \in 1..MaxInputs}
  ELSE [1..1 -> 1..Len(tensors)]

\* the call unit(x1, ..., xk): positional tensors, no keyword arguments
PositionalArgs(inputs) == TupleOf([k \in 1..Len(inputs) |-> Leaf(inputs[k])])

\* Naming.register_input: a value that exists before the first invocation
\* becomes an input of the root scope (the values are registered in index
\* order)
RegisterRootInput ==
  /\ UserCodeRuns
  /\ module_call_stack = <<>>
  /\ calls = <<>>
  /\ Len(nodes[ROOT]._inputs) < NumInitTensors
  /\ Commit(register_input(Heap, ROOT, Len(nodes[ROOT]._inputs) + 1))

\* a fresh compound child of the current scope
RegisterSubNet ==
  /\ UserCodeRuns
  /\ SubNetCount < MaxSubNets
  /\ \E s \in SuggestedNames : Commit(register_sub_net(Heap, CurrentScope, s))

\* Module.__call__: with naming.push_module_call(...) as call_entry
PushModuleCall ==
  /\ UserCodeRuns
  /\ PushCount < MaxCalls
  /\ \E m \in 1..Len(Units) : \E inputs \in InputSeqs(m) :
       Commit(CallEntry_enter(
                push_module_call(Heap, m, PositionalArgs(inputs), DictOf(<<>>)),
                NewCall(Heap)))

\* call_entry.apply_call(), up to its return or, for a unit with forward, up
\* to the call of module.forward; an exception inside the adapter's apply
\* runs the finally clause of register_returnn_subnet_output
ApplyCall ==
  /\ err = "none"
  /\ module_call_stack # <<>>
  /\ calls[Top].pc = "entered"
  /\ LET c == Top
         H == IF has_torch_forward(Heap, calls[c].module)
              THEN apply_call_begin(Heap, c)
              ELSE apply_call_primitive(Heap, c)
     IN  IF ~Ok(H) /\ calls[c].via = "adapter"
         THEN Commit([register_returnn_subnet_output_finally(H, c)
                        EXCEPT !.err = H.err])
         ELSE Commit(H)

\* module.forward returns res
ForwardReturn ==
  /\ err = "none"
  /\ module_call_stack # <<>>
  /\ calls[Top].pc = "forward"
  /\ \E res \in 1..Len(tensors) :
       Commit(apply_call_forward_returned(Heap, Top, res))

\* copy_call.apply_call() returned: the rest of
\* register_returnn_subnet_output and of the compound apply_call
AdapterReturn ==
  /\ err = "none"
  /\ Len(module_call_stack) >= 2
  /\ calls[Top].pc = "applied"
  /\ calls[Top].via = "adapter"
  /\ LET copy_call == Top
         c  == module_call_stack[Len(module_call_stack) - 1]
         H1 == register_returnn_subnet_output_end(Heap, calls[c].namespace, copy_call)
         H2 == IF Ok(H1) THEN [H1 EXCEPT !.calls[copy_call].pc = "exited"] ELSE H1
     IN  Commit(apply_call_end(H2, c, calls[copy_call].inputs_flat[1]))

\* the with-block of Module.__call__ ends: CallEntry.__exit__
ExitCall ==
  /\ err = "none"
  /\ module_call_stack # <<>>
  /\ calls[Top].pc = "applied"
  /\ calls[Top].via = "push"
  /\ Commit(CallEntry_exit(Heap, Top))

\* root.dump_as_returnn_net_dict()
DumpNetDict ==
  /\ CallerRuns
  /\ lastDump = NoDump
  /\ LET r == dump_as_returnn_net_dict(Heap, ROOT)
     IN  lastDump' = [kind |-> "net", node |-> ROOT, err |-> r.err, val |-> r.val]
  /\ UNCHANGED <<modules, calls, nodes, tensors, module_call_stack,
                 wrap_to_returnn_enabled, keep_orig_module_io_tensors, err>>

\* node.dump_as_returnn_layer_dict()
DumpLayerDict ==
  /\ CallerRuns
  /\ lastDump = NoDump
  /\ \E n \in 2..Len(nodes) :
       LET r == dump_as_returnn_layer_dict(Heap, n)
       IN  lastDump' = [kind |-> "layer", node |-> n, err |-> r.err, val |-> r.val]
  /\ UNCHANGED <<modules, calls, nodes, tensors, module_call_stack,
                 wrap_to_returnn_enabled, keep_orig_module_io_tensors, err>>

Next ==
  \/ RegisterRootInput
  \/ RegisterSubNet
  \/ PushModuleCall
  \/ ApplyCall
  \/ ForwardReturn
  \/ AdapterReturn
  \/ ExitCall
  \/ DumpNetDict
  \/ DumpLayerDict

Spec == Init /\ [][Next]_vars

(***************************************************************************)
(* Invocations with nested arguments: unit((x, y)), unit(b=x, a=y),        *)
(* unit(x, a=(y,)), unit((), x).                                           *)
(***************************************************************************)
NestedInputs ==
  UNION {{[args |-> TupleOf(<<TupleOf(<<Leaf(x), Leaf(y)>>)>>), kwargs |-> DictOf(<<>>)],
          [args |-> TupleOf(<<>>),
           kwargs |-> DictOf(<<<<"b", Leaf(x)>>, <<"a", Leaf(y)>>>>)],
          [args |-> TupleOf(<<Leaf(x)>>),
           kwargs |-> DictOf(<<<<"a", TupleOf(<<Leaf(y)>>)>>>>)],
          [args |-> TupleOf(<<TupleOf(<<>>), Leaf(x)>>), kwargs |-> DictOf(<<>>)]}
         : x, y \in 1..Len(tensors)}

\* Module.__call__(*args, **kwargs) of a unit with forward
PushNestedModuleCall ==
  /\ UserCodeRuns
  /\ PushCount < MaxCalls
  /\ \E m \in 1..Len(Units) : \E inputs \in NestedInputs :
       /\ modules[m].unit.has_torch_forward
       /\ Commit(CallEntry_enter(
                   push_module_call(Heap, m, inputs.args, inputs.kwargs),
                   NewCall(Heap)))

(***************************************************************************)
(* Sessions in which the construction of a layer can raise.                *)
(***************************************************************************)
\* CallEntry.apply_call of the innermost invocation, a unit without forward,
\* with construct_layer raising; for the adapter the finally clause of
\* register_returnn_subnet_output runs while the exception propagates
ApplyCallRaises ==
  /\ err = "none"
  /\ module_call_stack # <<>>
  /\ calls[Top].pc = "entered"
  /\ ~has_torch_forward(Heap, calls[Top].module)
  /\ LET c == Top
         H == apply_call_construct_raises(Heap, c)
     IN  IF ~Ok(H) /\ calls[c].via = "adapter"
         THEN Commit([register_returnn_subnet_output_finally(H, c)
                        EXCEPT !.err = H.err])
         ELSE Commit(H)

NextRaise ==
  \/ RegisterRootInput
  \/ PushModuleCall
  \/ ApplyCall
  \/ ApplyCallRaises
  \/ ForwardReturn
  \/ AdapterReturn
  \/ ExitCall

SpecRaise == Init /\ [][NextRaise]_vars

(***************************************************************************)
(* Sessions with a unit that owns parameters and with a hidden scope.      *)
(***************************************************************************)
ParamUnits ==
  << [name |-> "lin",  has_torch_forward |-> FALSE, class |-> "linear",
      params |-> <<"W", "b">>],
     [name |-> ".tmp", has_torch_forward |-> TRUE,  class |-> "subnetwork",
      params |-> <<>>],
     [name |-> "blk",  has_torch_forward |-> TRUE,  class |-> "subnetwork",
      params |-> <<>>] >>

InitParams ==
  /\ wrap_to_returnn_enabled \in BOOLEAN
  /\ keep_orig_module_io_tensors \in BOOLEAN
  /\ modules = [i \in 1..Len(ParamUnits) |->
                  [unit |-> ParamUnits[i], calls |-> <<>>, names |-> <<>>]]
  /\ calls = <<>>
  /\ nodes = <<RootNode(wrap_to_returnn_enabled)>>
  /\ tensors = [i \in 1..NumInitTensors |->
                  [names |-> <<>>, output_from_calls |-> <<>>,
                   output_from_modules |-> <<>>]]
  /\ module_call_stack = <<>>
  /\ err = "none"
  /\ lastDump = NoDump

NextParams ==
  \/ RegisterRootInput
  \/ PushModuleCall
  \/ ApplyCall
  \/ ForwardReturn
  \/ AdapterReturn
  \/ ExitCall

SpecParams == InitParams /\ [][NextParams]_vars

(***************************************************************************)
(* Sessions in which a child is registered under the name of an indexed    *)
(* input slot.                                                             *)
(***************************************************************************)
SlotLikeNames == {"data:1", "output"}

\* register_sub_net(suggested_name=s) on the current scope, with s the name
\* of a slot
RegisterSlotNamedSubNet ==
  /\ UserCodeRuns
  /\ SubNetCount < MaxSubNets
  /\ \E s \in SlotLikeNames : Commit(register_sub_net(Heap, CurrentScope, s))

NextSlots ==
  \/ RegisterRootInput
  \/ RegisterSlotNamedSubNet
  \/ PushModuleCall
  \/ ApplyCall
  \/ ForwardReturn
  \/ AdapterReturn
  \/ ExitCall

SpecSlots == Init /\ [][NextSlots]_vars

NextNest ==
  \/ RegisterRootInput
  \/ PushModuleCall
  \/ PushNestedModuleCall
  \/ ApplyCall
  \/ ForwardReturn
  \/ AdapterReturn
  \/ ExitCall

SpecNest == Init /\ [][NextNest]_vars

(***************************************************************************)
(* Properties.                                                             *)
(***************************************************************************)

\* CallEntry.get_root_call's walk along parent_call, kept as the chain from
\* the root invocation down to c
RECURSIVE AncestorChain(_)
AncestorChain(c) ==
  IF calls[c].parent_call = None THEN <<c>>
  ELSE Append(AncestorChain(calls[c].parent_call), c)

Executing == err = "none" /\ module_call_stack # <<>>

\* C1 as stated: whenever an invocation is executing (the adapter of
\* register_returnn_subnet_output included), the call stack, bottom to top,
\* is the ancestor chain of the innermost executing invocation.
C1_StackIsAncestorChain ==
  Executing => module_call_stack = AncestorChain(Top)

\* what the code keeps instead: for an invocation pushed by push_module_call
\* the stack is its ancestor chain; for the adapter the stack is the
\* adapter's ancestor chain without the adapter's parent, the producer
\* invocation, which has already left the stack.
C1_StackIsAncestorChainButProducer ==
  Executing =>
    IF calls[Top].via = "push"
    THEN module_call_stack = AncestorChain(Top)
    ELSE LET chain == AncestorChain(Top)
             producer == calls[Top].parent_call
         IN  /\ producer # None
             /\ Len(chain) >= 3
             /\ chain[Len(chain) - 1] = producer
             /\ module_call_stack = SubSeq(chain, 1, Len(chain) - 2) \o <<Top>>
             /\ ~InSeq(producer, module_call_stack)

\* the adapter is on top of the stack, about to be applied, with the
\* compound invocation below it
C1_AdapterExecuting ==
  /\ Executing
  /\ calls[Top].via = "adapter"
  /\ calls[Top].pc = "entered"
  /\ Len(module_call_stack) >= 2

\* the primitive invocation on top of the stack is a second invocation of
\* its unit, whose first invocation was applied
SecondInvocation ==
  /\ Executing
  /\ calls[Top].pc = "entered"
  /\ ~has_torch_forward(Heap, calls[Top].module)
  /\ Len(modules[calls[Top].module].calls) >= 2
  /\ modules[calls[Top].module].calls[1] # Top
  /\ calls[modules[calls[Top].module].calls[1]].pc \in {"applied", "exited"}

FirstInvocation == modules[calls[Top].module].calls[1]

\* C2: applying a second invocation of a primitive unit whose first
\* invocation was applied fails, with NotImplementedError once the
\* invocation's node description was built, and constructs no graph node; the
\* first invocation's namespace node (its calls list included), its layer
\* description and its output entries stay as they were.
C2_ReuseRejected ==
  [][(SecondInvocation /\ ApplyCall) =>
       /\ err' # "none"
       /\ create_returnn_layer_dict(Heap, Top).err = "none"
            => err' = "NotImplementedError"
       /\ Len(nodes') = Len(nodes)
       /\ \A n \in 1..Len(nodes) :
            nodes'[n].returnn_ctx.layers = nodes[n].returnn_ctx.layers
       /\ nodes'[calls[FirstInvocation].namespace]
            = nodes[calls[FirstInvocation].namespace]
       /\ calls'[FirstInvocation].namespace = calls[FirstInvocation].namespace
       /\ calls'[FirstInvocation].returnn_layer_dict
            = calls[FirstInvocation].returnn_layer_dict
       /\ calls'[FirstInvocation].outputs = calls[FirstInvocation].outputs
       /\ \A k \in 1..Len(calls[FirstInvocation].outputs) :
            tensors'[calls[FirstInvocation].outputs[k]]
              = tensors[calls[FirstInvocation].outputs[k]]
  ]_vars

\* a second invocation was applied and rejected as unsupported reuse
C2_ReuseWasRejected ==
  /\ err = "NotImplementedError"
  /\ module_call_stack # <<>>
  /\ Len(modules[calls[Top].module].calls) = 2
  /\ calls[Top].returnn_layer_dict.kind = "None"
  /\ calls[FirstInvocation].returnn_layer_dict.kind = "layer"

Scopes == {n \in 1..Len(nodes) : nodes[n].is_subnet}

ChildKeys(n) == Keys(nodes[n].childs_by_name)

\* the nodes register_sub_net and register_sub_call created: each carries the
\* name _get_unique_name returned for it
OrdinaryNodes == {n \in 2..Len(nodes) : ~nodes[n].is_reserved}

\* C3: the names _get_unique_name returned at one scope, each registered by
\* register_sub_net or register_sub_call, are pairwise distinct, and none is
\* a reserved name.
C3_UniqueNames ==
  /\ \A a \in OrdinaryNodes : \A b \in OrdinaryNodes :
       (a # b /\ nodes[a].parent = nodes[b].parent) => nodes[a].name # nodes[b].name
  /\ \A a \in OrdinaryNodes : nodes[a].name \notin {"data", "output"}

\* one scope handed out names for a reserved suggestion and for two equal
\* suggestions
C3_CollisionsResolved ==
  \E n \in Scopes : {"data_1", "relu", "relu_1"} \subseteq ChildKeys(n)

\* the names the session suggests to _get_unique_name
NameCandidates == SuggestedNames \cup {Units[i].name : i \in 1..Len(Units)}

Taken(n, name) == name \in ChildKeys(n) \/ name \in {"data", "output"}

\* C4: _get_unique_name(s) is s when s is neither a child key nor reserved,
\* else s_i for the smallest i >= 1 with s_i neither a child key nor
\* reserved; the result is never a child key.
C4_UniqueNameResult ==
  \A n \in Scopes : \A s \in NameCandidates :
    LET r == _get_unique_name(Heap, n, s)
    IN  /\ ~Taken(n, s) => r = s
        /\ Taken(n, s) =>
             \E i \in 1..(Len(nodes[n].childs_by_name) + 1) :
               /\ r = s \o "_" \o ToString(i)
               /\ ~Taken(n, r)
               /\ \A j \in 1..(i-1) : Taken(n, s \o "_" \o ToString(j))
        /\ r \notin ChildKeys(n)

\* a scope where a suggestion and its first suffixed form are both taken
C4_SecondSuffixNeeded ==
  \E n \in Scopes : \E s \in NameCandidates :
    /\ s \in ChildKeys(n)
    /\ (s \o "_1") \in ChildKeys(n)
    /\ _get_unique_name(Heap, n, s) = s \o "_2"

\* C5: a key of childs_by_name stays, mapped to the same child, whatever is
\* registered later; register_sub_net and register_sub_call each add exactly
\* one new key to their scope, name collision or not.
C5_NamesStayTaken ==
  [][/\ Len(nodes') >= Len(nodes)
     /\ \A n \in 1..Len(nodes) :
          \A k \in 1..Len(nodes[n].childs_by_name) :
            LET key   == nodes[n].childs_by_name[k][1]
                child == nodes[n].childs_by_name[k][2]
            IN  /\ HasKey(nodes'[n].childs_by_name, key)
                /\ DictGet(nodes'[n].childs_by_name, key) = child
                /\ nodes'[child].name = key
                /\ nodes'[child].parent = n
     /\ (RegisterSubNet \/ PushModuleCall) =>
          /\ Len(nodes'[CurrentScope].childs_by_name)
               = Len(nodes[CurrentScope].childs_by_name) + 1
          /\ Cardinality(Keys(nodes'[CurrentScope].childs_by_name)
                           \ ChildKeys(CurrentScope)) = 1
  ]_vars

\* a scope holds an input slot, an ordinary child and the output slot, and
\* the root holds a name and the name a collision with it produced
C5_AllKindsRegistered ==
  /\ \E n \in Scopes : {"data", "relu", "output"} \subseteq ChildKeys(n)
  /\ {"blk", "blk_1"} \subseteq ChildKeys(ROOT)

\* RegisteredName.get_absolute_name, as the list of names from the root
RECURSIVE NodePath(_)
NodePath(n) ==
  IF nodes[n].parent = None THEN <<>>
  ELSE Append(NodePath(nodes[n].parent), nodes[n].name)

\* the key paths of a dumped mapping, entry by entry, nested mappings included
RECURSIVE DumpPaths(_, _, _)
DumpPaths(net_dict, prefix, k) ==
  IF k > Len(net_dict) THEN <<>>
  ELSE
    LET path == Append(prefix, net_dict[k][1])
        sub  == IF net_dict[k][2].kind = "subnetwork"
                THEN DumpPaths(net_dict[k][2].subnetwork, path, 1)
                ELSE <<>>
    IN  <<path>> \o sub \o DumpPaths(net_dict, prefix, k + 1)

BoundNodes == {n \in 2..Len(nodes) : nodes[n].calls # <<>>}

DumpedPrimitive ==
  /\ lastDump.kind = "layer"
  /\ Len(nodes[lastDump.node].calls) = 1
  /\ ~modules[calls[nodes[lastDump.node].calls[1]].module].unit.has_torch_forward

\* C7 as stated: the dump of a primitive node is the layer description
\* stored on its invocation, and fails when that invocation has none yet.
C7_PrimitiveDumpNeedsDescription ==
  DumpedPrimitive =>
    LET call == nodes[lastDump.node].calls[1]
    IN  IF calls[call].returnn_layer_dict.kind = "None"
        THEN lastDump.err # "none"
        ELSE lastDump.err = "none" /\ lastDump.val = calls[call].returnn_layer_dict

\* the first node of tensor.names whose parent is the scope
FirstNameInScope(scope, tensor) ==
  LET names == tensors[tensor].names
      k == CHOOSE k \in 1..Len(names) :
             /\ nodes[names[k]].parent = scope
             /\ \A j \in 1..(k-1) : nodes[names[j]].parent # scope
  IN  nodes[names[k]].name

KnownInScope(scope, tensor) ==
  \E k \in 1..Len(tensors[tensor].names) :
    nodes[tensors[tensor].names[k]].parent = scope

InputTensor(n, k) == nodes[nodes[n]._inputs[k]].tensor

\* C8: the dump of a compound node fails with KeyError, returning nothing,
\* when one of its inputs has no name in the parent scope; name_for_tensor
\* of a tensor known in a scope is the name of the first node of the
\* tensor's names whose parent is that scope.
C8_UnknownInputFailsDump ==
  /\ (lastDump.kind = "layer" /\ nodes[lastDump.node].is_subnet
        /\ \E k \in 1..Len(nodes[lastDump.node]._inputs) :
             ~KnownInScope(nodes[lastDump.node].parent,
                           InputTensor(lastDump.node, k)))
       => (lastDump.err = "KeyError" /\ lastDump.val = <<>>)
  /\ \A scope \in Scopes : \A t \in 1..Len(tensors) :
       IF KnownInScope(scope, t)
       THEN /\ name_for_tensor(Heap, scope, t).err = "none"
            /\ name_for_tensor(Heap, scope, t).val = FirstNameInScope(scope, t)
       ELSE name_for_tensor(Heap, scope, t).err = "KeyError"

\* a compound node with an input unknown to its parent scope was dumped
C8_DumpFailedOnUnknownInput ==
  /\ lastDump.kind = "layer"
  /\ lastDump.err = "KeyError"
  /\ nodes[lastDump.node].is_subnet
  /\ nodes[lastDump.node].calls # <<>>
  /\ Len(nodes[lastDump.node]._inputs) = 2
  /\ KnownInScope(nodes[lastDump.node].parent, InputTensor(lastDump.node, 1))
  /\ ~KnownInScope(nodes[lastDump.node].parent, InputTensor(lastDump.node, 2))

\* C9: the dump of a compound node has class "subnetwork" and a subnetwork
\* mapping; one input is referenced directly by its name in the parent
\* scope, two or more as the list of names in registration order with
\* concat_sources False; concat_sources is present only then.
C9_SubnetworkEntryShape ==
  (lastDump.kind = "layer" /\ lastDump.err = "none" /\ nodes[lastDump.node].is_subnet) =>
    LET n == lastDump.node
        d == lastDump.val
        k == Len(nodes[n]._inputs)
        expected == [i \in 1..k |->
                       FirstNameInScope(nodes[n].parent, InputTensor(n, i))]
    IN  /\ d.class = "subnetwork"
        /\ d.kind = "subnetwork"
        /\ Found(d.subnetwork) = dump_as_returnn_net_dict(Heap, n)
        /\ k = 1 => (~d.from_is_list /\ d.from = <<expected[1]>>)
        /\ k >= 2 => (d.from_is_list /\ d.from = expected
                        /\ d.concat_sources = "False")
        /\ (d.concat_sources # "absent") <=> (k >= 2)

\* a compound node with two inputs was dumped
C9_TwoInputDump ==
  /\ lastDump.kind = "layer"
  /\ lastDump.err = "none"
  /\ nodes[lastDump.node].is_subnet
  /\ Len(nodes[lastDump.node]._inputs) = 2
  /\ InputTensor(lastDump.node, 1) # InputTensor(lastDump.node, 2)

\* C10: the k-th input registered at a scope (k from 0) is a reserved
\* child named "data" for k = 0 and "data:k" otherwise, k-th in the scope's
\* input list and bound to the k-th flattened input of the invocation; the
\* context learns it with no index for k = 0 and index k otherwise; an
\* invocation with a child invocation has all its inputs registered.
C10_InputSlots ==
  /\ \A n \in Scopes : \A k \in 0..(Len(nodes[n]._inputs) - 1) :
       LET slot == nodes[n]._inputs[k + 1]
           name == IF k = 0 THEN "data" ELSE "data:" \o ToString(k)
       IN  /\ nodes[slot].name = name
           /\ nodes[slot].is_reserved
           /\ nodes[slot].parent = n
           /\ HasKey(nodes[n].childs_by_name, name)
           /\ DictGet(nodes[n].childs_by_name, name) = slot
           /\ \A c \in Range(nodes[n].calls) :
                nodes[slot].tensor = calls[c].inputs_flat[k + 1]
           /\ wrap_to_returnn_enabled =>
                /\ Len(nodes[n].returnn_ctx.inputs) = Len(nodes[n]._inputs)
                /\ nodes[n].returnn_ctx.inputs[k + 1]
                     = <<nodes[slot].tensor, IF k = 0 THEN "" ELSE ToString(k)>>
  /\ \A c \in 1..Len(calls) :
       (calls[c].via = "push" /\ calls[c].parent_call # None) =>
         LET p == calls[c].parent_call
         IN  Len(nodes[calls[p].namespace]._inputs) = Len(calls[p].inputs_flat)

\* a compound invocation with two inputs issued a child invocation
C10_ChildAfterTwoInputs ==
  \E c \in 1..Len(calls) :
    /\ wrap_to_returnn_enabled
    /\ calls[c].via = "push"
    /\ calls[c].parent_call # None
    /\ Len(calls[calls[c].parent_call].inputs_flat) = 2
    /\ {"data", "data:1"} \subseteq ChildKeys(calls[calls[c].parent_call].namespace)

\* the values a caller may hand to set_outputs in the current state
OutputArgs ==
  {TensorValue(t) : t \in 1..Len(tensors)}
    \cup {ListValue(xs) : xs \in UNION {[1..k -> 1..Len(tensors)] : k \in 0..2}}

BoundCalls == {c \in 1..Len(calls) : calls[c].namespace # None}

\* C12 as stated: whatever the session flags, a set_outputs that follows a
\* set_outputs on the same invocation fails and leaves what the first one
\* recorded unchanged.
C12_OutputsSetOnce ==
  \A c \in BoundCalls : \A first \in OutputArgs : \A second \in OutputArgs :
    LET H1 == set_outputs(Heap, c, first)
        H2 == set_outputs(H1, c, second)
    IN  Ok(H1) =>
          /\ ~Ok(H2)
          /\ H2.calls[c].outputs = H1.calls[c].outputs
          /\ H2.calls[c].orig_outputs = H1.calls[c].orig_outputs

\* what the code keeps: with graph materialization enabled a second
\* set_outputs fails with AssertionError and changes nothing
C12_OutputsSetOnceWhenWrapping ==
  wrap_to_returnn_enabled =>
    \A c \in BoundCalls : \A first \in OutputArgs : \A second \in OutputArgs :
      LET H1 == set_outputs(Heap, c, first)
          H2 == set_outputs(H1, c, second)
      IN  Ok(H1) => H2 = [H1 EXCEPT !.err = "AssertionError"]

\* C13 as stated: after set_outputs with graph materialization enabled the
\* outputs are a sequence (one value becomes a sequence of length 1) and
\* every output's entry lists the invocation among its producer
\* invocations, the unit among its producer units and the invocation's
\* namespace node among its names exactly once.
C13_OutputsBackReferences ==
  wrap_to_returnn_enabled =>
    \A c \in BoundCalls : \A outs \in OutputArgs :
      LET H1 == set_outputs(Heap, c, outs)
          xs == H1.calls[c].outputs
      IN  Ok(H1) =>
            /\ H1.calls[c].has_outputs
            /\ outs.kind = "tensor" => xs = <<outs.id>>
            /\ outs.kind = "list" => xs = outs.items
            /\ \A k \in 1..Len(xs) :
                 /\ InSeq(c, H1.tensors[xs[k]].output_from_calls)
                 /\ InSeq(calls[c].module, H1.tensors[xs[k]].output_from_modules)
                 /\ Count(calls[c].namespace, H1.tensors[xs[k]].names) = 1

\* what the code keeps: the producer back-references for every output, the
\* namespace node exactly once among the names of the first output only
C13_FirstOutputNamed ==
  wrap_to_returnn_enabled =>
    \A c \in BoundCalls : \A outs \in OutputArgs :
      LET H1 == set_outputs(Heap, c, outs)
          xs == H1.calls[c].outputs
      IN  Ok(H1) =>
            /\ xs = AsList(outs)
            /\ \A k \in 1..Len(xs) :
                 /\ InSeq(c, H1.tensors[xs[k]].output_from_calls)
                 /\ InSeq(calls[c].module, H1.tensors[xs[k]].output_from_modules)
                 /\ H1.tensors[xs[k]].names =
                      IF xs[k] = xs[1] /\ ~InSeq(calls[c].namespace, tensors[xs[k]].names)
                      THEN Append(tensors[xs[k]].names, calls[c].namespace)
                      ELSE tensors[xs[k]].names
            /\ xs # <<>> => Count(calls[c].namespace, H1.tensors[xs[1]].names) = 1

\* the forward of compound invocation c issued only primitive invocations,
\* at least one, returned the value the last of them produced, and c's
\* apply_call has returned
SequentialForward(c) ==
  /\ calls[c].via = "push"
  /\ modules[calls[c].module].unit.has_torch_forward
  /\ calls[c].pc \in {"applied", "exited"}
  /\ calls[c].child_calls # <<>>
  /\ \A k \in 1..Len(calls[c].child_calls) :
       LET cc == calls[c].child_calls[k]
       IN  /\ ~modules[calls[cc].module].unit.has_torch_forward
           /\ calls[cc].pc = "exited"
  /\ LET last == calls[c].child_calls[Len(calls[c].child_calls)]
     IN  calls[c].outputs = calls[last].outputs

\* C11: the dump of the node of a compound invocation whose forward issued
\* n sequential primitive invocations is a subnetwork entry whose mapping
\* holds, in order, one entry per inner invocation and then "output", the
\* node of the identity adapter fed by the value of the last inner
\* invocation; no input placeholder (data, data:k) is a key.
C11_SequentialCompoundDump ==
  \A c \in BoundCalls :
    (lastDump.kind = "layer" /\ lastDump.err = "none"
       /\ lastDump.node = calls[c].namespace /\ SequentialForward(c)) =>
      LET inner   == calls[c].child_calls
          n       == Len(inner)
          last    == inner[n]
          scope   == calls[c].namespace
          outNode == DictGet(nodes[scope].childs_by_name, "output")
          adapter == nodes[outNode].calls[1]
          net     == lastDump.val.subnetwork
      IN  /\ lastDump.val.kind = "subnetwork"
          /\ HasKey(nodes[scope].childs_by_name, "output")
          /\ nodes[outNode].is_reserved
          /\ nodes[outNode].calls = <<adapter>>
          /\ calls[adapter].via = "adapter"
          /\ modules[calls[adapter].module].unit = CopyUnit
          /\ calls[adapter].inputs_flat = calls[last].outputs
          /\ calls[adapter].returnn_layer_dict.from
               = <<nodes[calls[last].namespace].name>>
          /\ net = [k \in 1..(n + 1) |->
                      IF k <= n
                      THEN <<nodes[calls[inner[k]].namespace].name,
                             calls[inner[k]].returnn_layer_dict>>
                      ELSE <<"output", calls[adapter].returnn_layer_dict>>]
          /\ \A k \in 1..Len(net) : net[k][1] \notin {"data", "data:1", "data:2"}

\* a compound node wrapping two sequential primitive invocations was dumped
C11_TwoInnerDumped ==
  \E c \in BoundCalls :
    /\ lastDump.kind = "layer"
    /\ lastDump.err = "none"
    /\ lastDump.node = calls[c].namespace
    /\ SequentialForward(c)
    /\ Len(calls[c].child_calls) = 2
    /\ calls[calls[c].child_calls[2]].inputs_flat
         = calls[calls[c].child_calls[1]].outputs

\* the objects of the session as a caller outside any raised exception
\* sees them
Objects == [Heap EXCEPT !.err = "none"]

\* C14: assign_call with an invocation already bound to the node, and
\* assign_module with a unit already bound to it, change nothing: the
\* node's calls and modules, the unit's names and the parent's children
\* are as before.
C14_BindingIdempotent ==
  \A n \in 1..Len(nodes) :
    /\ \A k \in 1..Len(nodes[n].calls) :
         assign_call(Objects, n, nodes[n].calls[k]) = Objects
    /\ \A k \in 1..Len(nodes[n].modules) :
         assign_module(Objects, n, nodes[n].modules[k]) = Objects

\* a unit is bound to two nodes, each with its own invocation
C14_UnitBoundTwice ==
  \E n \in 2..Len(nodes) : \E o \in 2..Len(nodes) :
    /\ n # o
    /\ nodes[n].calls # <<>>
    /\ nodes[o].calls # <<>>
    /\ nodes[n].modules = nodes[o].modules
    /\ nodes[n].modules # <<>>
    /\ modules[nodes[n].modules[1]].names = <<n, o>>

\* binding a unit m, or an invocation of it, to node n would break the
\* binding rules: a primitive node takes one primitive unit and one
\* invocation, a compound node takes compound units only
WouldBreakUnitRule(n, m) ==
  IF nodes[n].is_subnet
  THEN ~modules[m].unit.has_torch_forward
  ELSE \/ modules[m].unit.has_torch_forward
       \/ (nodes[n].modules # <<>> /\ ~InSeq(m, nodes[n].modules))

WouldBreakCallRule(n, c, m) ==
  \/ WouldBreakUnitRule(n, m)
  \/ (~nodes[n].is_subnet /\ nodes[n].calls # <<>> /\ ~InSeq(c, nodes[n].calls))

\* C15: a primitive node has at most one bound invocation and at most one
\* bound unit, both primitive; every invocation bound to a compound node is
\* against a compound unit; assign_call and assign_module fail on a binding
\* that would break this and leave the node's calls and modules unchanged.
C15_BindingRules ==
  /\ \A n \in 1..Len(nodes) :
       IF nodes[n].is_subnet
       THEN \A k \in 1..Len(nodes[n].calls) :
              modules[calls[nodes[n].calls[k]].module].unit.has_torch_forward
       ELSE /\ Len(nodes[n].calls) <= 1
            /\ Len(nodes[n].modules) <= 1
            /\ \A k \in 1..Len(nodes[n].calls) :
                 ~modules[calls[nodes[n].calls[k]].module].unit.has_torch_forward
            /\ \A k \in 1..Len(nodes[n].modules) :
                 ~modules[nodes[n].modules[k]].unit.has_torch_forward
  /\ \A n \in 1..Len(nodes) : \A m \in 1..Len(modules) :
       LET fresh == Len(calls) + 1
           H0 == CallEntry_init(Objects, m, "push")
           H1 == assign_call(H0, n, fresh)
           H2 == assign_module(Objects, n, m)
       IN  /\ WouldBreakCallRule(n, fresh, m) =>
                /\ ~Ok(H1)
                /\ H1.nodes[n].calls = nodes[n].calls
                /\ H1.nodes[n].modules = nodes[n].modules
           /\ WouldBreakUnitRule(n, m) =>
                /\ ~Ok(H2)
                /\ H2.nodes[n].calls = nodes[n].calls
                /\ H2.nodes[n].modules = nodes[n].modules
  /\ \A n \in 1..Len(nodes) : \A c \in 1..Len(calls) :
       LET H1 == assign_call(Objects, n, c)
       IN  WouldBreakCallRule(n, c, calls[c].module) =>
             /\ ~Ok(H1)
             /\ H1.nodes[n].calls = nodes[n].calls
             /\ H1.nodes[n].modules = nodes[n].modules

\* a primitive node with its invocation next to a second primitive unit,
\* and a compound node with its invocation
C15_BothKindsBound ==
  /\ \E n \in 2..Len(nodes) : \E m \in 1..Len(modules) :
       /\ ~nodes[n].is_subnet
       /\ Len(nodes[n].calls) = 1
       /\ ~modules[m].unit.has_torch_forward
       /\ nodes[n].modules # <<m>>
  /\ \E n \in 2..Len(nodes) : nodes[n].is_subnet /\ nodes[n].calls # <<>>

\* the invocations whose scope has not been left
OpenCalls == {c \in 1..Len(calls) : calls[c].pc # "exited"}

\* C16: while every scope is entered and left normally, the stack holds
\* exactly the invocations pushed and not yet popped (pushes minus pops is
\* its length), it changes only at its top, and leaving an invocation
\* leaves the stack as it was before the invocation was pushed, empty
\* after the outermost one; __enter__ succeeds only for the invocation on
\* top of the stack.
C16_StackDiscipline ==
  /\ [](err = "none" =>
          /\ Len(module_call_stack) = Cardinality(OpenCalls)
          /\ Range(module_call_stack) = OpenCalls
          /\ \A k \in 1..Len(module_call_stack) :
               calls[module_call_stack[k]].via = "push" =>
                 calls[module_call_stack[k]].level = k - 1)
  /\ [](\A c \in 1..Len(calls) :
          Ok(CallEntry_enter(Objects, c))
            <=> (module_call_stack # <<>> /\ Top = c))
  /\ [][err' = "none" =>
          \/ module_call_stack' = module_call_stack
          \/ module_call_stack' = SubSeq(module_call_stack, 1, Len(module_call_stack) - 1)
          \/ module_call_stack = SubSeq(module_call_stack', 1, Len(module_call_stack') - 1)
     ]_vars
  /\ [][(ExitCall /\ err' = "none") =>
          /\ module_call_stack' = SubSeq(module_call_stack, 1, calls[Top].level)
          /\ (calls[Top].parent_call = None => module_call_stack' = <<>>)
     ]_vars

\* an outermost invocation with a nested invocation and an adapter has ended
C16_OutermostEnded ==
  /\ err = "none"
  /\ module_call_stack = <<>>
  /\ \E c \in 1..Len(calls) :
       /\ calls[c].parent_call = None
       /\ calls[c].child_calls # <<>>
       /\ calls[c].pc = "exited"
  /\ \E c \in 1..Len(calls) : calls[c].via = "adapter" /\ calls[c].pc = "exited"

\* the structure an invocation was made with
InputStructure(c) == TupleOf(<<calls[c].inputs_args, calls[c].inputs_kwargs>>)

\* the flat sequences of the length of xs over the values of the session
FlatSequences(n) == [1..n -> 1..Len(tensors)]

\* C17: for every invocation, packing any flat sequence of matching length
\* into the structure of its arguments (as apply_call does with the recorded
\* inputs) and flattening the result gives the flat sequence back; flattening
\* the structure and packing the result gives the structure back; and packing
\* a flat sequence of another length is rejected.
C17_PackFlattenRoundTrip ==
  \A c \in 1..Len(calls) :
    LET S == InputStructure(c)
        n == Len(flatten(S))
    IN  /\ calls[c].inputs_flat = flatten(S)
        /\ pack_inputs(Objects, c).err = "none"
        /\ flatten(pack_inputs(Objects, c).val) = calls[c].inputs_flat
        /\ \A f \in FlatSequences(n) :
             /\ pack_sequence_as(S, f).err = "none"
             /\ flatten(pack_sequence_as(S, f).val) = f
        /\ pack_sequence_as(S, flatten(S)).err = "none"
        /\ pack_sequence_as(S, flatten(S)).val = S
        /\ \A k \in (0..(n + 1)) \ {n} : \A f \in FlatSequences(k) :
             pack_sequence_as(S, f).err = "ValueError"

\* an invocation with keyword arguments given out of sorted order, with two
\* different values, has run and ended
C17_KeywordsOutOfOrderApplied ==
  \E c \in 1..Len(calls) :
    /\ calls[c].inputs_kwargs.kind = "dict"
    /\ Len(calls[c].inputs_kwargs.items) = 2
    /\ calls[c].inputs_kwargs.items[1][1] = "b"
    /\ calls[c].inputs_flat[1] # calls[c].inputs_flat[2]
    /\ calls[c].has_outputs
    /\ err = "none"

\* the adapter invocations
Adapters == {c \in 1..Len(calls) : calls[c].via = "adapter"}

\* C18: the adapter invocation that register_returnn_subnet_output pushes is
\* popped again on every exit path: while it runs it stays the top of an
\* otherwise unchanged stack, and whenever a step ends its run, by an error
\* or by its normal return, the stack after the step is the stack before it
\* without the adapter, which is the stack before the adapter was pushed.
C18_AdapterAlwaysPopped ==
  [][\A c \in Adapters :
       InSeq(c, module_call_stack)
         => /\ module_call_stack[Len(module_call_stack)] = c
            /\ IF err' # "none" \/ calls'[c].pc = "exited"
               THEN module_call_stack' =
                      SubSeq(module_call_stack, 1, Len(module_call_stack) - 1)
               ELSE module_call_stack' = module_call_stack]_vars

\* an adapter has returned normally and was popped
C18_AdapterReturned ==
  \E c \in Adapters : calls[c].pc = "exited" /\ ~InSeq(c, module_call_stack)

\* an adapter's run has failed and it was popped
C18_AdapterFailed ==
  \E c \in Adapters : err # "none" /\ calls[c].pc = "entered"

\* the invocations that produced t and are bound to the child of scope n
\* that names t
ProducersUnder(n, t) ==
  {c \in 1..Len(calls) :
     /\ InSeq(c, tensors[t].output_from_calls)
     /\ \E k \in 1..Len(tensors[t].names) :
          /\ nodes[tensors[t].names[k]].parent = n
          /\ \A j \in 1..(k - 1) : nodes[tensors[t].names[j]].parent # n
          /\ InSeq(c, nodes[tensors[t].names[k]].calls)}

\* the children of scope n in H with the reserved output name
OutputChilds(H, n) ==
  {k \in 1..Len(H.nodes[n].childs_by_name) :
     H.nodes[n].childs_by_name[k][1] = ReservedOutputName}

\* C19: register_returnn_subnet_output(t) on scope n gets as far as running
\* the adapter only if exactly one invocation both produced t and is bound to
\* the child of n that names t, and only if n has no "output" child yet; then
\* n has exactly one "output" child, a new reserved node, to which one new
\* invocation of the identity unit is bound, whose parent invocation is the
\* producer and which is the last of the producer's child invocations, and t
\* is bound to n itself.  Once the adapter has returned, the context of n has
\* the adapter's layer as its output.
C19_SubnetOutputContract ==
  /\ \A n \in 1..Len(nodes) : \A t \in 1..Len(tensors) :
       LET H     == register_returnn_subnet_output_begin(Objects, n, t)
           child == NewNode(Objects)
           copy  == NewCall(Objects)
       IN  Ok(H) =>
             /\ nodes[n].is_subnet
             /\ Cardinality(ProducersUnder(n, t)) = 1
             /\ ~HasKey(nodes[n].childs_by_name, ReservedOutputName)
             /\ Cardinality(OutputChilds(H, n)) = 1
             /\ DictGet(H.nodes[n].childs_by_name, ReservedOutputName) = child
             /\ Len(H.nodes) = Len(nodes) + 1
             /\ H.nodes[child].is_reserved /\ ~H.nodes[child].is_subnet
             /\ H.nodes[child].parent = n
             /\ H.nodes[child].calls = <<copy>>
             /\ Len(H.calls) = Len(calls) + 1
             /\ H.calls[copy].namespace = child
             /\ H.modules[H.calls[copy].module].unit = CopyUnit
             /\ H.calls[copy].inputs_flat = <<t>>
             /\ \A p \in ProducersUnder(n, t) :
                  /\ H.calls[copy].parent_call = p
                  /\ H.calls[p].child_calls = Append(calls[p].child_calls, copy)
             /\ H.nodes[n].tensor = t
             /\ Count(n, H.tensors[t].names) = 1
             /\ H.stack = Append(module_call_stack, copy)
  /\ \A c \in Adapters :
       calls[c].pc = "exited" =>
         LET child == calls[c].namespace
             n     == nodes[child].parent
         IN  /\ nodes[child].name = ReservedOutputName
             /\ nodes[n].returnn_ctx.output = nodes[child].name
             /\ calls[c].returnn_layer.name = nodes[child].name
             /\ calls[c].returnn_layer.network = n
             /\ nodes[n].tensor = calls[c].inputs_flat[1]
             /\ calls[c].parent_call # None
             /\ InSeq(c, calls[calls[c].parent_call].child_calls)
             /\ InSeq(calls[c].parent_call, tensors[calls[c].inputs_flat[1]].output_from_calls)

\* a compound invocation has registered its output: the adapter has returned
\* and the compound invocation has ended
C19_OutputRegistered ==
  \E c \in Adapters :
    /\ calls[c].pc = "exited"
    /\ err = "none"
    /\ nodes[nodes[calls[c].namespace].parent].returnn_ctx.output = ReservedOutputName
    /\ module_call_stack = <<>>

\* the scopes that enclose node n and have a layer: its ancestors below the
\* root
RECURSIVE EnclosingScopes(_)
EnclosingScopes(n) ==
  IF nodes[n].parent = None \/ nodes[n].parent = ROOT THEN {}
  ELSE {nodes[n].parent} \cup EnclosingScopes(nodes[n].parent)

\* the layer names from just below scope a down to node n, joined by "/"
RECURSIVE PathBelow(_, _)
PathBelow(a, n) ==
  IF nodes[n].parent = a THEN nodes[n].name
  ELSE PathBelow(a, nodes[n].parent) \o "/" \o nodes[n].name

\* scope a, or a scope between a and node n, is hidden
HiddenUpTo(a, n) ==
  \E h \in EnclosingScopes(n) :
    /\ (h = a \/ a \in EnclosingScopes(h))
    /\ startswith(nodes[h].name, ".")

\* the keys under which scope a holds parameter p of the layer of node n
KeysOf(a, n, p) ==
  {k \in 1..Len(nodes[a].returnn_ctx.params) :
     nodes[a].returnn_ctx.params[k][2] = [layer |-> n, name |-> p]}

\* the invocations of units without forward whose layer has been constructed
MaterializedCalls ==
  {c \in 1..Len(calls) :
     /\ ~modules[calls[c].module].unit.has_torch_forward
     /\ calls[c].pc \in {"applied", "exited"}}

\* C20: after a primitive invocation has constructed layer L with parameter
\* p, every enclosing layer A of L with no hidden layer (name starting with
\* ".") from A down to L holds p under exactly one key, the layer names from
\* just below A down to L joined by "/", then "/" and the name of p; an
\* enclosing layer at or above the first hidden one holds p under no key.
C20_ParamsHoisted ==
  \A c \in MaterializedCalls :
    LET L  == calls[c].namespace
        ps == modules[calls[c].module].unit.params
    IN  \A i \in 1..Len(ps) : \A a \in EnclosingScopes(L) :
          IF HiddenUpTo(a, L)
          THEN KeysOf(a, L, ps[i]) = {}
          ELSE /\ Cardinality(KeysOf(a, L, ps[i])) = 1
               /\ \A k \in KeysOf(a, L, ps[i]) :
                    nodes[a].returnn_ctx.params[k][1]
                      = PathBelow(a, L) \o "/" \o ps[i]

\* a layer with parameters was constructed two visible scopes deep
C20_HoistedTwoLevels ==
  /\ \E c \in MaterializedCalls :
       /\ modules[calls[c].module].unit.params # <<>>
       /\ Cardinality(EnclosingScopes(calls[c].namespace)) = 2
       /\ \A a \in EnclosingScopes(calls[c].namespace) :
            ~HiddenUpTo(a, calls[c].namespace)
  /\ err = "none"

\* a layer with parameters was constructed in a visible scope below a hidden
\* one
C20_HiddenAbove ==
  \E c \in MaterializedCalls :
    /\ modules[calls[c].module].unit.params # <<>>
    /\ Cardinality(EnclosingScopes(calls[c].namespace)) = 2
    /\ ~startswith(nodes[nodes[calls[c].namespace].parent].name, ".")
    /\ \E a \in EnclosingScopes(calls[c].namespace) : HiddenUpTo(a, calls[c].namespace)

\* the ancestors of node n, the root included
RECURSIVE Ancestors(_)
Ancestors(n) ==
  IF nodes[n].parent = None THEN {}
  ELSE {nodes[n].parent} \cup Ancestors(nodes[n].parent)

\* the nodes that have a context
WithContext == {n \in 1..Len(nodes) : nodes[n].returnn_ctx.exists}

\* C21: a node that has a context is a compound node, all its ancestors have
\* a context, and its context's parent is the context of its parent node;
\* maybe_create_returnn_ctx on a node that has a context changes nothing,
\* and no step replaces the context of a node that has one.
C21_ContextCreatedOnce ==
  /\ [](\A n \in WithContext :
          /\ nodes[n].is_subnet
          /\ Ancestors(n) \subseteq WithContext
          /\ nodes[n].returnn_ctx.parent = nodes[n].parent
          /\ nodes[n].returnn_ctx.name = nodes[n].name
          /\ nodes[n].returnn_ctx.sub_net_layer = (nodes[n].parent # None)
          /\ maybe_create_returnn_ctx(Objects, n) = Objects)
  /\ [][\A n \in WithContext :
          /\ nodes'[n].returnn_ctx.exists
          /\ nodes'[n].returnn_ctx.parent = nodes[n].returnn_ctx.parent
          /\ nodes'[n].returnn_ctx.name = nodes[n].returnn_ctx.name
          /\ \A k \in 1..Len(nodes[n].returnn_ctx.layers) :
               nodes'[n].returnn_ctx.layers[k] = nodes[n].returnn_ctx.layers[k]]_vars

\* a scope two levels below the root has a context that holds a layer, and
\* so have its parent and the root
C21_NestedContextInUse ==
  \E n \in WithContext :
    /\ nodes[n].level = 2
    /\ nodes[n].returnn_ctx.layers # <<>>
    /\ nodes[nodes[n].parent].returnn_ctx.exists
    /\ err = "none"

\* the invocations of units without forward
PrimitiveCalls ==
  {c \in 1..Len(calls) :
     /\ ~modules[calls[c].module].unit.has_torch_forward
     /\ calls[c].namespace # None
     /\ nodes[calls[c].namespace].parent # None}

\* the layers of every network of H are those of the state
SameLayersExcept(H, scope) ==
  \A n \in 1..Len(nodes) :
    n # scope => H.nodes[n].returnn_ctx.layers = nodes[n].returnn_ctx.layers

\* C22: applying a primitive invocation, in any state, either fails or adds
\* exactly one layer, to the network of the parent scope of its node, named
\* as the node, and touches the layers of no other network; if the parent's
\* network already has a layer of that name, the apply fails and the layers
\* of every network stay as they were.
C22_OneLayerPerPrimitiveApply ==
  \A c \in PrimitiveCalls :
    LET ns     == calls[c].namespace
        parent == nodes[ns].parent
        before == nodes[parent].returnn_ctx.layers
        H      == apply_call_primitive(Objects, c)
    IN  /\ Len(H.nodes) = Len(nodes)
        /\ SameLayersExcept(H, parent)
        /\ IF Ok(H)
           THEN /\ ~InSeq(nodes[ns].name, before)
                /\ H.nodes[parent].returnn_ctx.layers = Append(before, nodes[ns].name)
                /\ H.calls[c].returnn_layer.name = nodes[ns].name
                /\ H.calls[c].returnn_layer.network = parent
           ELSE H.nodes[parent].returnn_ctx.layers = before
        /\ InSeq(nodes[ns].name, before) => ~Ok(H)

\* one primitive invocation has been applied, so that its name is taken in
\* the network, and another one, in the same scope, is about to be applied
C22_AppliedAndPending ==
  \E c, d \in PrimitiveCalls :
    /\ c # d
    /\ nodes[calls[c].namespace].parent = nodes[calls[d].namespace].parent
    /\ InSeq(nodes[calls[c].namespace].name,
             nodes[nodes[calls[c].namespace].parent].returnn_ctx.layers)
    /\ calls[d].pc = "entered"
    /\ Ok(apply_call_primitive(Objects, d))
    /\ err = "none"

\* C23: no two input slots of one scope are bound to the same traced
\* value.
C23_InputSlotsDistinct ==
  \A n \in 1..Len(nodes) :
    \A i, j \in 1..Len(nodes[n]._inputs) :
      i # j => nodes[nodes[n]._inputs[i]].tensor # nodes[nodes[n]._inputs[j]].tensor

\* what the code keeps instead: the input slots of a scope are distinct
\* nodes, one per position of the flattened inputs, also when two positions
\* hold the same value
C23_OneSlotPerPosition ==
  \A c \in 1..Len(calls) :
    (modules[calls[c].module].unit.has_torch_forward /\ calls[c].pc \notin {"push", "entered"}
       /\ calls[c].namespace # None)
      => LET slots == nodes[calls[c].namespace]._inputs
         IN  /\ Len(slots) >= Len(calls[c].inputs_flat)
             /\ \A k \in 1..Len(calls[c].inputs_flat) :
                  /\ nodes[slots[k]].tensor = calls[c].inputs_flat[k]
                  /\ nodes[slots[k]].name = InputName(k - 1)

\* the children of scope n that are not reserved
OrdinaryChilds(n) ==
  {nodes[n].childs_by_name[k][2] : k \in
     {k \in 1..Len(nodes[n].childs_by_name) :
        ~nodes[nodes[n].childs_by_name[k][2]].is_reserved}}

\* C24: in every scope the name of the next input slot and the name of the
\* output slot are taken by no ordinary child, so that register_input and
\* register_returnn_subnet_output do not fail on a taken slot name.
C24_SlotNamesStayFree ==
  \A n \in 1..Len(nodes) : \A child \in OrdinaryChilds(n) :
    /\ nodes[child].name # InputName(Len(nodes[n]._inputs))
    /\ nodes[child].name # ReservedOutputName

\* what the code keeps instead: no ordinary child is named "data" or
\* "output", the two members of ReservedNames
C24_ReservedNamesStayFree ==
  \A n \in 1..Len(nodes) : \A child \in OrdinaryChilds(n) :
    nodes[child].name \notin ReservedNames

\* C25: the namespace tree is consistent: every node but the root is the
\* value of its parent's childs_by_name under its own name and is one level
\* below its parent; every value of a node's childs_by_name has that node as
\* parent and the key as name, and no key occurs twice; every member of a
\* scope's input list is one of its children.
C25_TreeConsistent ==
  /\ nodes[ROOT].parent = None
  /\ \A n \in 1..Len(nodes) :
       /\ n # ROOT =>
            /\ nodes[n].parent \in 1..Len(nodes)
            /\ HasKey(nodes[nodes[n].parent].childs_by_name, nodes[n].name)
            /\ DictGet(nodes[nodes[n].parent].childs_by_name, nodes[n].name) = n
            /\ nodes[n].level = nodes[nodes[n].parent].level + 1
       /\ \A k \in 1..Len(nodes[n].childs_by_name) :
            LET key   == nodes[n].childs_by_name[k][1]
                child == nodes[n].childs_by_name[k][2]
            IN  /\ child \in 1..Len(nodes)
                /\ nodes[child].parent = n
                /\ nodes[child].name = key
                /\ \A j \in 1..Len(nodes[n].childs_by_name) :
                     nodes[n].childs_by_name[j][1] = key => j = k
       /\ \A k \in 1..Len(nodes[n]._inputs) :
            \E j \in 1..Len(nodes[n].childs_by_name) :
              nodes[n].childs_by_name[j][2] = nodes[n]._inputs[k]

\* a scope one level below the root has an input slot, an ordinary child
\* and the output child
C25_FullScope ==
  \E n \in 1..Len(nodes) :
    /\ nodes[n].level = 1
    /\ nodes[n]._inputs # <<>>
    /\ HasKey(nodes[n].childs_by_name, ReservedOutputName)
    /\ OrdinaryChilds(n) # {}

\* C26: an invocation is bound to at most one node and the two directions
\* agree: call.namespace is n exactly if call is in n.calls, where it occurs
\* once; a unit is in n.modules exactly if n is in the unit's names, once in
\* each; binding an invocation that has a namespace to another node fails
\* and leaves the invocation where it was.
C26_BindingsAgree ==
  /\ \A c \in 1..Len(calls) : \A n \in 1..Len(nodes) :
       /\ (calls[c].namespace = n) <=> InSeq(c, nodes[n].calls)
       /\ Count(c, nodes[n].calls) <= 1
  /\ \A m \in 1..Len(modules) : \A n \in 1..Len(nodes) :
       /\ InSeq(m, nodes[n].modules) <=> InSeq(n, modules[m].names)
       /\ Count(m, nodes[n].modules) <= 1
       /\ Count(n, modules[m].names) <= 1
  /\ \A c \in 1..Len(calls) : \A n \in 1..Len(nodes) :
       (calls[c].namespace # None /\ calls[c].namespace # n) =>
         LET H == assign_call(Objects, n, c)
         IN  /\ ~Ok(H)
             /\ H.calls[c].namespace = calls[c].namespace
             /\ H.nodes[n].calls = nodes[n].calls

\* an invocation is bound to one scope and another scope would accept its
\* unit, so that only the invocation's namespace stands in the way
C26_RebindingRefused ==
  \E c \in 1..Len(calls) : \E n \in 1..Len(nodes) :
    /\ calls[c].namespace # None
    /\ calls[c].namespace # n
    /\ n # ROOT
    /\ ~InSeq(calls[c].module, nodes[n].modules)
    /\ Ok(assign_module(Objects, n, calls[c].module))
    /\ ~Ok(assign_call(Objects, n, c))

\* the nodes that a value is bound to
NodesWithTensor == {n \in 1..Len(nodes) : nodes[n].tensor # None}

====
